---------------------------- MODULE Spec2Model ----------------------------
(***************************************************************************)
(* Model of the sampling core of redis-keyspace-heatmap:                   *)
(*   - bucket labelling, aggregateKeys and mergeAggregations               *)
(*     (src/src/lib/utils.ts),                                             *)
(*   - scanStandalone, scanCluster and collectKeyMetadata                  *)
(*     (src/src/lib/scan/scanEngine.ts),                                   *)
(*   - estimateKeySize and its heuristics (sizeEstimate.ts).               *)
(*                                                                         *)
(* JavaScript objects that are shared by reference (the ttlHist, idleHist  *)
(* and byType objects of a PrefixAgg) live in the variable heap and are    *)
(* named by their index in it, so that the shallow copy { ...prefix } of   *)
(* mergeAggregations shares them with its input exactly as the code does.  *)
(***************************************************************************)
EXTENDS Integers, Sequences, FiniteSets, TLC

VARIABLES
    config,     \* the ScanConfig of the run
    heap,       \* the histogram objects: heap[r] = [ttlHist, idleHist, byType]
    cur,        \* the aggregateKeys call in progress (prefixMap, topNMap)
    objs,       \* the AggregationResult objects returned so far
    scan,       \* the scanKeys call in progress: its locals and the store it reads
    coll,       \* the collectKeyMetadata call in progress
    clients,    \* RedisManager.clients: the cached client of each connection id
    req,        \* the POST /api/scan request in progress
    lab,        \* the bucket labels computed so far: <<value, label>> pairs
    pool,       \* the Redis clients created for one profile and the cache entry
    ops         \* the requests that run concurrently on those clients

aggVars == <<config, heap, cur, objs>>
scanVars == <<scan, coll>>
reqVars == <<clients, req>>
connVars == <<pool, ops>>
vars == <<config, heap, cur, objs, scan, coll, clients, req, lab, pool, ops>>

-----------------------------------------------------------------------------
(* Values *)

\* ttlMs: number | null  -- the null of a persistent key
NULL == -999
\* idleSec?: number, estBytes?: number  -- the undefined of an optional field
UNDEF == -998

EmptyMap == [x \in {} |-> 0]

Min(a, b) == IF a < b THEN a ELSE b

\* (m[k] || 0) + n, stored back under k
MapAdd(m, k, n) ==
    IF k \in DOMAIN m THEN [m EXCEPT ![k] = @ + n] ELSE m @@ (k :> n)

RECURSIVE SumOver(_, _)
SumOver(m, S) ==
    IF S = {} THEN 0
    ELSE LET k == CHOOSE k \in S : TRUE IN m[k] + SumOver(m, S \ {k})

MapSum(m) == SumOver(m, DOMAIN m)

\* key.estBytes || 0 ; `if (key.estBytes)` is false for undefined and for 0
EstOrZero(k) == IF k.estBytes = UNDEF THEN 0 ELSE k.estBytes

-----------------------------------------------------------------------------
(* Bucket labels *)

\* Math.round(seconds / d) for an integer seconds >= 0: halves round up
formatTime(seconds) ==
    IF seconds < 60 THEN ToString(seconds) \o "s"
    ELSE IF seconds < 3600 THEN ToString((seconds + 30) \div 60) \o "m"
    ELSE IF seconds < 86400 THEN ToString((seconds + 1800) \div 3600) \o "h"
    ELSE ToString((seconds + 43200) \div 86400) \o "d"

\* the for loop of both label functions: the first interval that holds sec
RECURSIVE BucketScan(_, _, _)
BucketScan(sec, buckets, i) ==
    IF i > Len(buckets) - 1
    THEN ">" \o formatTime(buckets[Len(buckets)])
    ELSE IF sec >= buckets[i] /\ sec < buckets[i + 1]
         THEN formatTime(buckets[i]) \o "-" \o formatTime(buckets[i + 1])
         ELSE BucketScan(sec, buckets, i + 1)

getTTLBucketLabel(ttlMs, buckets) ==
    IF ttlMs = NULL THEN "persistent"
    ELSE IF ttlMs = 0 THEN "0-60s"
    ELSE BucketScan(ttlMs \div 1000, buckets, 1)

getIdleBucketLabel(idleSec, buckets) ==
    IF idleSec = 0 THEN "0-1m"
    ELSE BucketScan(idleSec, buckets, 1)

-----------------------------------------------------------------------------
(* aggregateKeys.  A key name is held as key.split(delimiter), its list of  *)
(* segments; a prefix is the string parts.slice(0, i).join(delimiter).      *)

Delimiter == ":"

RECURSIVE Join(_)
Join(parts) ==
    IF Len(parts) = 1 THEN parts[1]
    ELSE Join(SubSeq(parts, 1, Len(parts) - 1)) \o Delimiter \o parts[Len(parts)]

MaxLevels == 3

\* the deepest prefix alone, without the prefixes above it
extractPrefixesDeepest(key, maxLevels) ==
    << Join(SubSeq(key, 1, Min(Len(key), maxLevels))) >>

extractPrefixes(key, maxLevels) ==
    [i \in 1..Min(Len(key), maxLevels) |-> Join(SubSeq(key, 1, i))]

EmptyBundle == [ttlHist |-> EmptyMap, idleHist |-> EmptyMap, byType |-> EmptyMap]

createEmptyPrefixAgg(prefix, ref) ==
    [prefix |-> prefix, count |-> 0, estBytes |-> 0, ref |-> ref]

Truthy(n) == n # UNDEF /\ n # 0

\* the fields of agg itself and the three objects it points to, after one key
updatePrefixAgg(agg, bundle, key, cfg) ==
    LET ttlLabel == getTTLBucketLabel(key.ttlMs, cfg.ttlBuckets)
        byType0 == IF key.type \in DOMAIN bundle.byType
                   THEN bundle.byType
                   ELSE bundle.byType @@ (key.type :> [count |-> 0, estBytes |-> 0])
    IN  [agg |-> [agg EXCEPT
                    !.count = @ + 1,
                    !.estBytes = IF Truthy(key.estBytes) THEN @ + key.estBytes ELSE @],
         bundle |->
            [ttlHist |-> MapAdd(bundle.ttlHist, ttlLabel, 1),
             idleHist |->
                IF key.idleSec # UNDEF
                THEN MapAdd(bundle.idleHist,
                            getIdleBucketLabel(key.idleSec, cfg.idleBuckets), 1)
                ELSE bundle.idleHist,
             byType |->
                [byType0 EXCEPT ![key.type] =
                    [count |-> @.count + 1,
                     estBytes |-> IF Truthy(key.estBytes)
                                  THEN @.estBytes + key.estBytes
                                  ELSE @.estBytes]]]]

\* the position of prefix in a list of PrefixAgg, 0 when it is not there
PrefixIndex(list, prefix) ==
    IF \E i \in 1..Len(list) : list[i].prefix = prefix
    THEN CHOOSE i \in 1..Len(list) : list[i].prefix = prefix
    ELSE 0

\* lines 232-238: the first entry strictly smaller than key, else the end
InsertIndex(list, key) ==
    IF \E i \in 1..Len(list) : EstOrZero(list[i]) < EstOrZero(key)
    THEN CHOOSE i \in 1..Len(list) :
            /\ EstOrZero(list[i]) < EstOrZero(key)
            /\ \A j \in 1..(i - 1) : ~(EstOrZero(list[j]) < EstOrZero(key))
    ELSE Len(list) + 1

\* a list that takes keys while it has room and is closed once it is full
insertTopNWhileRoom(list, key, maxSize) ==
    LET insertIndex == InsertIndex(list, key) - 1
    IN  IF Len(list) < maxSize
        THEN SubSeq(list, 1, insertIndex) \o <<key>>
             \o SubSeq(list, insertIndex + 1, Len(list))
        ELSE list

insertTopN(list, key, maxSize) ==
    LET insertIndex == InsertIndex(list, key) - 1     \* 0-based, as in the code
        spliced == SubSeq(list, 1, insertIndex) \o <<key>>
                   \o SubSeq(list, insertIndex + 1, Len(list))
    IN  IF insertIndex < maxSize
        THEN IF Len(spliced) > maxSize THEN SubSeq(spliced, 1, maxSize) ELSE spliced
        ELSE list

\* lines 157-162: the loop over the prefixes of one key
RECURSIVE FoldPrefixes(_, _, _, _)
FoldPrefixes(st, prefixes, key, cfg) ==
    IF prefixes = <<>> THEN st
    ELSE
      LET p == Head(prefixes)
          st1 == IF PrefixIndex(st.prefixMap, p) = 0
                 THEN [st EXCEPT
                         !.prefixMap = Append(@, createEmptyPrefixAgg(p, Len(st.heap) + 1)),
                         !.heap = Append(@, EmptyBundle)]
                 ELSE st
          i == PrefixIndex(st1.prefixMap, p)
          r == st1.prefixMap[i].ref
          u == updatePrefixAgg(st1.prefixMap[i], st1.heap[r], key, cfg)
      IN  FoldPrefixes([st1 EXCEPT !.prefixMap[i] = u.agg, !.heap[r] = u.bundle],
                       Tail(prefixes), key, cfg)

\* lines 154-173: the body of the loop over keys, for one key
AggregateKey(st, key, cfg) ==
    LET st1 == FoldPrefixes(st, extractPrefixes(key.key, MaxLevels), key, cfg)
        topN0 == IF key.type \in DOMAIN st1.topNMap
                 THEN st1.topNMap
                 ELSE st1.topNMap @@ (key.type :> <<>>)
    IN  [st1 EXCEPT !.topNMap =
            IF Truthy(key.estBytes)
            THEN [topN0 EXCEPT ![key.type] = insertTopN(@, key, cfg.sizeTopN)]
            ELSE topN0]

\* Array.prototype.sort((a, b) => b.estBytes - a.estBytes): stable, descending
RECURSIVE SortByEstBytes(_)
SortByEstBytes(list) ==
    IF list = <<>> THEN <<>>
    ELSE LET init == SortByEstBytes(SubSeq(list, 1, Len(list) - 1))
             x == list[Len(list)]
             n == Cardinality({i \in 1..Len(init) : init[i].estBytes >= x.estBytes})
         IN  SubSeq(init, 1, n) \o <<x>> \o SubSeq(init, n + 1, Len(init))

RECURSIVE FoldKeys(_, _, _)
FoldKeys(st, keys, cfg) ==
    IF keys = <<>> THEN st ELSE FoldKeys(AggregateKey(st, Head(keys), cfg), Tail(keys), cfg)

\* the whole call on the heap h: the returned object and the heap after it
aggregateKeys(keys, cfg, h) ==
    LET st == FoldKeys([prefixMap |-> <<>>, topNMap |-> EmptyMap, heap |-> h], keys, cfg)
    IN  [prefixes |-> SortByEstBytes(st.prefixMap), topN |-> st.topNMap, heap |-> st.heap]

-----------------------------------------------------------------------------
(* mergeAggregations *)

\* insertTopN(existing, key, 20)
MergeTopNSize == 20

MapGet(m, k) == IF k \in DOMAIN m THEN m[k] ELSE 0

\* lines 264-271: existing[label] = (existing[label] || 0) + count, per entry
MergeHist(existing, hist) ==
    [l \in DOMAIN existing \cup DOMAIN hist |-> MapGet(existing, l) + MapGet(hist, l)]

\* lines 274-280
MergeByType(existing, byType) ==
    [t \in DOMAIN existing \cup DOMAIN byType |->
        LET e == IF t \in DOMAIN existing THEN existing[t]
                 ELSE [count |-> 0, estBytes |-> 0]
        IN  IF t \in DOMAIN byType
            THEN [count |-> e.count + byType[t].count,
                  estBytes |-> e.estBytes + byType[t].estBytes]
            ELSE e]

\* lines 255-282: one result's prefixes folded into mergedPrefixes.  The copy
\* { ...prefix } keeps prefix.ref: it shares ttlHist, idleHist and byType with
\* the input, and lines 264-280 write into those shared objects.
RECURSIVE MergePrefixes(_, _)
MergePrefixes(st, prefixes) ==
    IF prefixes = <<>> THEN st
    ELSE
      LET prefix == Head(prefixes)
          i == PrefixIndex(st.merged, prefix.prefix)
      IN  IF i = 0
          THEN MergePrefixes([st EXCEPT !.merged = Append(@, prefix)], Tail(prefixes))
          ELSE
            LET existing == st.merged[i]
                src == st.heap[prefix.ref]
                dst == st.heap[existing.ref]
            IN  MergePrefixes(
                  [st EXCEPT
                     !.merged[i] = [existing EXCEPT
                                      !.count = @ + prefix.count,
                                      !.estBytes = @ + prefix.estBytes],
                     !.heap[existing.ref] =
                        [ttlHist |-> MergeHist(dst.ttlHist, src.ttlHist),
                         idleHist |-> MergeHist(dst.idleHist, src.idleHist),
                         byType |-> MergeByType(dst.byType, src.byType)]],
                  Tail(prefixes))

RECURSIVE InsertAll(_, _, _)
InsertAll(list, keys, maxSize) ==
    IF keys = <<>> THEN list
    ELSE InsertAll(insertTopN(list, Head(keys), maxSize), Tail(keys), maxSize)

\* lines 285-294: one result's top-N lists folded into mergedTopN
MergeTopN(mergedTopN, topN) ==
    [t \in DOMAIN mergedTopN \cup DOMAIN topN |->
        IF t \notin DOMAIN topN THEN mergedTopN[t]
        ELSE IF t \notin DOMAIN mergedTopN THEN topN[t]
        ELSE InsertAll(mergedTopN[t], topN[t], MergeTopNSize)]

RECURSIVE MergeResults(_, _)
MergeResults(st, results) ==
    IF results = <<>> THEN st
    ELSE LET result == Head(results)
             st1 == MergePrefixes(st, result.prefixes)
         IN  MergeResults([st1 EXCEPT !.topN = MergeTopN(@, result.topN)], Tail(results))

\* mergeAggregations with the final sort turned around: smallest prefix first
mergeAggregationsAscending(results, h) ==
    LET st == MergeResults([merged |-> <<>>, topN |-> EmptyMap, heap |-> h], results)
        s == SortByEstBytes(st.merged)
    IN  [prefixes |-> [i \in 1..Len(s) |-> s[Len(s) + 1 - i]],
         topN |-> st.topN, heap |-> st.heap]

\* the whole call on the heap h: the returned object and the heap after it
mergeAggregations(results, h) ==
    LET st == MergeResults([merged |-> <<>>, topN |-> EmptyMap, heap |-> h], results)
    IN  [prefixes |-> SortByEstBytes(st.merged), topN |-> st.topN, heap |-> st.heap]

\* What a reader of an AggregationResult sees: every PrefixAgg with the
\* objects it points to, and the top-N lists.
PrefixView(p, h) ==
    [prefix |-> p.prefix, count |-> p.count, estBytes |-> p.estBytes,
     ttlHist |-> h[p.ref].ttlHist, idleHist |-> h[p.ref].idleHist,
     byType |-> h[p.ref].byType]

View(result, h) ==
    [prefixes |-> [i \in 1..Len(result.prefixes) |-> PrefixView(result.prefixes[i], h)],
     topN |-> result.topN]

-----------------------------------------------------------------------------
(* The aggregation layer as a state machine: aggregateKeys calls, run one  *)
(* key at a time, and mergeAggregations calls over the objects returned so *)
(* far.  Both functions are synchronous, so calls do not interleave.  The  *)
(* partial results are produced first and merged afterwards (fan-out, then *)
(* fan-in).                                                                *)

MaxParts == 3       \* aggregateKeys calls before the merges
MaxKeys == 3        \* keys folded, over all those calls
MaxMerges == 2      \* mergeAggregations calls
MaxTopN == 2        \* largest sizeTopN tried
MaxFoldKeys == 4    \* keys folded by the call of the single-result runs

KeyMetaOf(key, type, ttlMs, idleSec, estBytes) ==
    [key |-> key, type |-> type, ttlMs |-> ttlMs, idleSec |-> idleSec,
     estBytes |-> estBytes, db |-> 0]

\* the KeyMeta values the calls are fed
KeyUniverse ==
    { KeyMetaOf(<<"a", "1">>, "string", NULL, UNDEF, 10),
      KeyMetaOf(<<"a", "2">>, "string", 30000, UNDEF, 20),
      KeyMetaOf(<<"b">>, "hash", 0, 0, UNDEF),
      KeyMetaOf(<<"c", "x", "y", "z">>, "hash", 400000, 120, 10) }

\* the bucket boundaries of the specification's scenario and the defaults of
\* the scan route
ScenarioBuckets == [ttlBuckets |-> <<0, 60, 300>>, idleBuckets |-> <<0, 60>>]

RouteBuckets ==
    [ttlBuckets |-> <<0, 60, 300, 1800, 3600, 21600, 86400>>,
     idleBuckets |-> <<0, 60, 300, 3600, 21600, 86400>>]

NoCall == [active |-> FALSE, keys |-> <<>>, prefixMap |-> <<>>, topNMap |-> EmptyMap]

AggObjs == {i \in 1..Len(objs) : objs[i].op = "aggregateKeys"}
MergeObjs == {i \in 1..Len(objs) : objs[i].op = "mergeAggregations"}

\* no scan and no metadata collection in progress
NoScan == [pc |-> "idle"]
NoCollect == [pc |-> "idle"]
\* log: what each response sent so far said, "ok" or the hint of the error
NoRequest == [pc |-> "idle", log |-> <<>>]

\* no client was created and the cache of the RedisManager is empty
NoPool == [objects |-> <<>>, cached |-> 0, store |-> <<>>]

\* ConnectionProfile: kind, clusterHosts (its length, 0 when absent or empty)
\* and whether the sentinel configuration is present; the id is the position
ProfileUniverse ==
    << [kind |-> "standalone", clusterHosts |-> 0, sentinel |-> FALSE],
       [kind |-> "cluster",    clusterHosts |-> 2, sentinel |-> FALSE],
       [kind |-> "cluster",    clusterHosts |-> 0, sentinel |-> FALSE],
       [kind |-> "sentinel",   clusterHosts |-> 0, sentinel |-> TRUE],
       [kind |-> "sentinel",   clusterHosts |-> 0, sentinel |-> FALSE] >>

ProfileIds == 1..Len(ProfileUniverse)

\* private clients = new Map<string, Redis>(): "none" is an absent entry,
\* otherwise the status of the cached client
NoClients == [id \in ProfileIds |-> "none"]

RECURSIVE KeysFolded(_)
KeysFolded(i) == IF i = 0 THEN 0 ELSE Len(objs[i].keys) + KeysFolded(i - 1)

InitConfig(bucketChoices) ==
    /\ \E n \in 1..MaxTopN, b \in bucketChoices :
          config = [sizeTopN |-> n, ttlBuckets |-> b.ttlBuckets,
                    idleBuckets |-> b.idleBuckets]
    /\ heap = <<>>
    /\ cur = NoCall
    /\ objs = <<>>
    /\ scan = NoScan
    /\ coll = NoCollect
    /\ clients = NoClients
    /\ req = NoRequest
    /\ lab = <<>>
    /\ pool = NoPool
    /\ ops = <<>>

\* aggregateKeys is entered: lines 151-152
AggregateBegin(maxParts) ==
    /\ ~cur.active
    /\ MergeObjs = {}
    /\ Cardinality(AggObjs) < maxParts
    /\ cur' = [NoCall EXCEPT !.active = TRUE]
    /\ UNCHANGED <<config, heap, objs, scanVars, reqVars, lab, connVars>>

\* one iteration of the loop over keys: lines 154-173
AggregateStep(maxKeys) ==
    /\ cur.active
    /\ KeysFolded(Len(objs)) + Len(cur.keys) < maxKeys
    /\ \E key \in KeyUniverse :
          LET st == AggregateKey([prefixMap |-> cur.prefixMap, topNMap |-> cur.topNMap,
                                  heap |-> heap], key, config)
          IN  /\ cur' = [cur EXCEPT !.keys = Append(@, key),
                                    !.prefixMap = st.prefixMap,
                                    !.topNMap = st.topNMap]
              /\ heap' = st.heap
    /\ UNCHANGED <<config, objs, scanVars, reqVars, lab, connVars>>

\* the return of aggregateKeys: lines 175-178
AggregateReturn ==
    /\ cur.active
    /\ objs' = Append(objs, [op |-> "aggregateKeys", keys |-> cur.keys, args |-> <<>>,
                             prefixes |-> SortByEstBytes(cur.prefixMap),
                             topN |-> cur.topNMap])
    /\ cur' = NoCall
    /\ UNCHANGED <<config, heap, scanVars, reqVars, lab, connVars>>

\* mergeAggregations(results) with results the objects objs[args[1]], ...
MergeCall(args, maxMerges) ==
    /\ ~cur.active
    /\ Cardinality(MergeObjs) < maxMerges
    /\ LET m == mergeAggregations([i \in 1..Len(args) |-> objs[args[i]]], heap)
       IN  /\ objs' = Append(objs, [op |-> "mergeAggregations", keys |-> <<>>,
                                    args |-> args,
                                    prefixes |-> m.prefixes, topN |-> m.topN])
           /\ heap' = m.heap
    /\ UNCHANGED <<config, cur, scanVars, reqVars, lab, connVars>>

\* mergeAggregations([x])
MergeOne(maxMerges) == \E i \in 1..Len(objs) : MergeCall(<<i>>, maxMerges)

\* mergeAggregations([x, y]), x and y two objects
MergeTwo(maxMerges) ==
    \E i, j \in 1..Len(objs) : i # j /\ MergeCall(<<i, j>>, maxMerges)

\* Several partial results and merges of them.
InitMerge == InitConfig({ScenarioBuckets})

NextMerge ==
    \/ AggregateBegin(MaxParts)
    \/ AggregateStep(MaxKeys)
    \/ AggregateReturn
    \/ MergeOne(MaxMerges)
    \/ MergeTwo(MaxMerges)

SpecMerge == InitMerge /\ [][NextMerge]_vars

\* One aggregateKeys call, and the merge of its result alone.
InitFold == InitConfig({ScenarioBuckets, RouteBuckets})

NextFold ==
    \/ AggregateBegin(1)
    \/ AggregateStep(MaxFoldKeys)
    \/ AggregateReturn
    \/ MergeOne(1)

SpecFold == InitFold /\ [][NextFold]_vars

-----------------------------------------------------------------------------
(* Properties of the aggregation layer *)

Returned == IF objs = <<>> THEN {} ELSE {Len(objs)}    \* the object just returned

PrefixSums(p, h) ==
    /\ SumOver([t \in DOMAIN h[p.ref].byType |-> h[p.ref].byType[t].count],
               DOMAIN h[p.ref].byType) = p.count
    /\ MapSum(h[p.ref].ttlHist) = p.count
    /\ MapSum(h[p.ref].idleHist) <= p.count

IsAgg(i) == objs[i].op = "aggregateKeys"
IsMerge(i) == objs[i].op = "mergeAggregations"

\* the lists given to a merge are objects returned by aggregateKeys
OverAggs(i) == IsMerge(i) /\ \A n \in 1..Len(objs[i].args) : IsAgg(objs[i].args[n])

\* C2: every PrefixAgg of an object returned by aggregateKeys, or by
\* mergeAggregations over a list of aggregateKeys results, has
\* sum(byType[*].count) = count, sum(ttlHist[*]) = count and
\* sum(idleHist[*]) <= count.
C2_HistogramSums ==
    \A i \in Returned :
        (IsAgg(i) \/ OverAggs(i)) =>
            \A n \in 1..Len(objs[i].prefixes) : PrefixSums(objs[i].prefixes[n], heap)

\* C3: no top-N list is longer than sizeTopN, after each step of
\* aggregateKeys and in every result of mergeAggregations.
C3_TopNBounded ==
    /\ \A t \in DOMAIN cur.topNMap : Len(cur.topNMap[t]) <= config.sizeTopN
    /\ \A i \in 1..Len(objs) :
          (IsAgg(i) \/ OverAggs(i)) =>
              \A t \in DOMAIN objs[i].topN : Len(objs[i].topN[t]) <= config.sizeTopN

RECURSIVE ConcatKeys(_)
ConcatKeys(args) ==
    IF args = <<>> THEN <<>> ELSE objs[Head(args)].keys \o ConcatKeys(Tail(args))

Distinct(args) == \A m, n \in 1..Len(args) : m # n => args[m] # args[n]

\* aggregateKeys over the concatenated key lists, on a heap of its own
SinglePass(args) ==
    LET r == aggregateKeys(ConcatKeys(args), config, <<>>) IN View(r, r.heap)

\* C5: the merge of the per-shard results aggregateKeys(K1), ...,
\* aggregateKeys(Kn) equals aggregateKeys(K1 ++ ... ++ Kn): same prefixes in
\* the same order with the same statistics, and the same top-N lists.
C5_MergeEqualsSinglePass ==
    \A i \in Returned :
        (OverAggs(i) /\ Distinct(objs[i].args) /\ Cardinality(MergeObjs) = 1) =>
            View(objs[i], heap) = SinglePass(objs[i].args)

\* C6: merge([merge([a,b]), c]) = merge([a, merge([b,c])]).  The left side is
\* the object just returned by the second of two merge calls; the right side
\* is then computed from the same a, b and c, and both are read afterwards.
C6_MergeAssociative ==
    \A i \in Returned :
        (/\ IsMerge(i) /\ Len(objs[i].args) = 2
         /\ IsMerge(objs[i].args[1]) /\ IsAgg(objs[i].args[2])
         /\ OverAggs(objs[i].args[1]) /\ Len(objs[objs[i].args[1]].args) = 2
         /\ Distinct(objs[objs[i].args[1]].args \o <<objs[i].args[2]>>)) =>
            LET a == objs[objs[objs[i].args[1]].args[1]]
                b == objs[objs[objs[i].args[1]].args[2]]
                c == objs[objs[i].args[2]]
                bc == mergeAggregations(<<b, c>>, heap)
                right == mergeAggregations(<<a, bc>>, bc.heap)
            IN  View(objs[i], right.heap) = View(right, right.heap)

\* the fields of the PrefixAgg objects themselves, in list order
PrefixFields(result) ==
    [n \in 1..Len(result.prefixes) |->
        [prefix |-> result.prefixes[n].prefix, count |-> result.prefixes[n].count,
         estBytes |-> result.prefixes[n].estBytes]]

\* C7: merge([a,b]) and merge([b,a]) have the same prefix list, in the same
\* order, and the same top-N lists, in the same order.
C7_MergeCommutative ==
    \A i, j \in MergeObjs :
        (/\ OverAggs(i) /\ OverAggs(j)
         /\ Len(objs[i].args) = 2 /\ Distinct(objs[i].args)
         /\ objs[j].args = <<objs[i].args[2], objs[i].args[1]>>) =>
            /\ PrefixFields(objs[i]) = PrefixFields(objs[j])
            /\ objs[i].topN = objs[j].topN

\* C8: merge([x]) = x for a result x of aggregateKeys: the same prefixes in
\* the same order with the same statistics, and the same top-N lists.
C8_MergeIdentity ==
    \A i \in MergeObjs :
        (Len(objs[i].args) = 1 /\ IsAgg(objs[i].args[1])) =>
            View(objs[i], heap) = View(objs[objs[i].args[1]], heap)

\* a merge of one aggregateKeys result that has prefixes of different
\* estBytes and a non-empty top-N list
C8_Witness ==
    \E i \in MergeObjs :
        /\ Len(objs[i].args) = 1 /\ IsAgg(objs[i].args[1])
        /\ \E m, n \in 1..Len(objs[i].prefixes) :
              objs[i].prefixes[m].estBytes > objs[i].prefixes[n].estBytes
        /\ \E t \in DOMAIN objs[i].topN : Len(objs[i].topN[t]) = 2

ScenarioKeys ==
    << KeyMetaOf(<<"a", "1">>, "string", NULL, UNDEF, 10),
       KeyMetaOf(<<"a", "2">>, "string", 30000, UNDEF, 20) >>

\* C9: with ttlBuckets [0,60,300], aggregateKeys over a:1 (string, no expiry,
\* 10 bytes) and a:2 (string, 30000 ms, 20 bytes) gives prefix "a" count 2,
\* estBytes 30 and ttlHist {"persistent": 1, "0-60s": 1}.
C9_ScenarioHistogram ==
    \A i \in AggObjs :
        (objs[i].keys = ScenarioKeys /\ config.ttlBuckets = <<0, 60, 300>>) =>
            \E n \in 1..Len(objs[i].prefixes) :
                LET p == PrefixView(objs[i].prefixes[n], heap)
                IN  /\ p.prefix = "a"
                    /\ p.count = 2
                    /\ p.estBytes = 30
                    /\ p.ttlHist = ("persistent" :> 1 @@ "0-60s" :> 1)


\* the positions in keys of the keys of type t with a known estimate
KnownOf(keys, t) ==
    {j \in 1..Len(keys) : keys[j].type = t /\ keys[j].estBytes # UNDEF}

\* list holds the min(maxSize, m) largest estimates of the m keys at the
\* positions known: for every estimate v, as many entries >= v as there are
\* such keys, up to maxSize
LargestOf(list, keys, known, maxSize) ==
    /\ Len(list) = Min(maxSize, Cardinality(known))
    /\ \A k \in known :
          Cardinality({i \in 1..Len(list) : list[i].estBytes >= keys[k].estBytes})
            = Min(maxSize,
                  Cardinality({j \in known : keys[j].estBytes >= keys[k].estBytes}))

TopNOfKeys(topN, keys) ==
    \A t \in DOMAIN topN :
        /\ \A i \in 1..(Len(topN[t]) - 1) :
              topN[t][i].estBytes >= topN[t][i + 1].estBytes
        /\ \A i \in 1..Len(topN[t]) :
              /\ topN[t][i].type = t
              /\ topN[t][i].estBytes # UNDEF
              /\ \E j \in KnownOf(keys, t) : keys[j] = topN[t][i]
        /\ LargestOf(topN[t], keys, KnownOf(keys, t), config.sizeTopN)

\* the step folds a key without an estimate and leaves every list as it was
UnknownKeepsLists ==
    (cur.active /\ cur'.active /\ Len(cur'.keys) = Len(cur.keys) + 1
     /\ cur'.keys[Len(cur'.keys)].estBytes = UNDEF)
        => \A t \in DOMAIN cur.topNMap : cur'.topNMap[t] = cur.topNMap[t]

\* C20: after aggregateKeys has folded any sequence of keys, each topN[type]
\* is sorted in non-increasing estBytes order, holds only keys of that type
\* with a known estimate, and its estBytes values are the min(sizeTopN, m)
\* largest among the m keys of that type with a known estimate; folding a
\* key without an estimate changes no list.
C20_TopNLargestSorted ==
    /\ [](/\ cur.active => TopNOfKeys(cur.topNMap, cur.keys)
          /\ \A i \in 1..Len(objs) :
                IsAgg(i) => TopNOfKeys(objs[i].topN, objs[i].keys))
    /\ [][UnknownKeepsLists]_vars

\* with sizeTopN = 2, the call folded two string keys of 10 bytes, then one
\* of 20 bytes that evicted one of them, then a key without an estimate
C20_Witness ==
    /\ cur.active
    /\ config.sizeTopN = 2
    /\ Len(cur.keys) = 4
    /\ cur.keys[1].estBytes = 10 /\ cur.keys[1].type = "string"
    /\ cur.keys[2] = cur.keys[1]
    /\ cur.keys[3].estBytes = 20
    /\ cur.keys[4].estBytes = UNDEF
    /\ cur.topNMap["string"] = <<cur.keys[3], cur.keys[1]>>
    /\ cur.topNMap["hash"] = <<>>


\* the prefixes of the keys of KeyUniverse, in lexical order of their strings
LexicalOrder == <<"a", "a:1", "a:2", "b", "c", "c:x", "c:x:y">>

LexRank(prefix) == CHOOSE i \in 1..Len(LexicalOrder) : LexicalOrder[i] = prefix

\* C21: the prefixes list returned by aggregateKeys and by mergeAggregations
\* is ordered by descending estBytes, and two prefixes with equal estBytes
\* appear in lexical order of their prefix strings, whatever the order of the
\* input keys.
C21_PrefixesLexicalTies ==
    \A i \in 1..Len(objs) :
        (IsAgg(i) \/ OverAggs(i)) =>
            \A m, n \in 1..Len(objs[i].prefixes) :
                m < n =>
                    LET p == objs[i].prefixes[m]
                        q == objs[i].prefixes[n]
                    IN  /\ p.estBytes >= q.estBytes
                        /\ p.estBytes = q.estBytes => LexRank(p.prefix) < LexRank(q.prefix)

-----------------------------------------------------------------------------
(* Size estimation (sizeEstimate.ts) and collectKeyMetadata (scanEngine.ts) *)
(*                                                                          *)
(* The store's answers about one key are a record:                          *)
(*   key      the name, split at ':'                                        *)
(*   typeErr  the TYPE reply of the pipeline carries an error               *)
(*   type     the TYPE reply                                                *)
(*   pttl     the PTTL reply (-1: no expiry), ERR when it carries an error  *)
(*   idle     the OBJECT IDLETIME reply, ERR when it carries an error       *)
(*   mem      the MEMORY USAGE reply (0: null), ERR when the command throws *)
(*   len      the reply of the type's length lookup (GET's byte length,     *)
(*            HLEN, LLEN, SCARD, ZCARD, XINFO), ERR when the lookup throws  *)
(*   bytes    the byte length of the elements the type's sample returns     *)

ERR == -997

BaseOverhead == 50      \* sizeEstimate.ts: baseOverhead
SampleStride == 10      \* scanEngine.ts: i % 10 === 0
StreamEntryBytes == 100 \* sizeEstimate.ts: 100 bytes per stream entry

\* Buffer.byteLength(value, 'utf8'), for values of one-byte characters
ByteLength(value) == Len(value)

\* totalSize: the byte lengths of the sampled fields, values, elements, members
\* and scores, summed
RECURSIVE TotalSize(_)
TotalSize(content) ==
    IF content = <<>> THEN 0 ELSE ByteLength(Head(content)) + TotalSize(Tail(content))

\* GET: the byte length of the value, 0 when there is none or GET throws
estimateStringSize(r) ==
    IF r.len = ERR THEN 0
    ELSE IF r.content = <<>> THEN 0
    ELSE ByteLength(r.content[1])

\* hash: floor((totalSize / (sampleSize * 2)) * hlen), sampleSize = min(10, hlen)
estimateHashSize(r) ==
    IF r.len = ERR THEN 0
    ELSE IF r.len = 0 THEN 0
    ELSE (TotalSize(r.content) * r.len) \div (Min(10, r.len) * 2)

\* list, set and zset: floor((totalSize / sampleSize) * length)
estimateSampledSize(r, maxSample) ==
    IF r.len = ERR THEN 0
    ELSE IF r.len = 0 THEN 0
    ELSE (TotalSize(r.content) * r.len) \div Min(maxSample, r.len)

estimateListSize(r) == estimateSampledSize(r, 10)
estimateSetSize(r) == estimateSampledSize(r, 20)
estimateZSetSize(r) == estimateSampledSize(r, 10)

estimateStreamSize(r) ==
    IF r.len = ERR THEN 0
    ELSE IF r.len = 0 THEN 0
    ELSE r.len * StreamEntryBytes

estimateKeySizeHeuristic(r) ==
    CASE r.type = "string" -> estimateStringSize(r) + BaseOverhead
      [] r.type = "hash" -> estimateHashSize(r) + BaseOverhead
      [] r.type = "list" -> estimateListSize(r) + BaseOverhead
      [] r.type = "set" -> estimateSetSize(r) + BaseOverhead
      [] r.type = "zset" -> estimateZSetSize(r) + BaseOverhead
      [] r.type = "stream" -> estimateStreamSize(r) + BaseOverhead
      [] OTHER -> BaseOverhead

\* MEMORY USAGE first; its value when positive, the heuristic otherwise.
\* Every lookup is inside a try/catch of its own: the call never throws.
estimateKeySize(r) ==
    IF r.mem # ERR /\ r.mem > 0 THEN r.mem ELSE estimateKeySizeHeuristic(r)

\* the iteration that estimates the size of every key of the batch
CollectKeyEveryKey(st, i, r, db) ==
    IF r.typeErr THEN st
    ELSE LET ttlMs == IF r.pttl = ERR THEN NULL ELSE r.pttl
             idleSec == IF r.idle = ERR THEN UNDEF ELSE r.idle
         IN  [metadata |->
                 Append(st.metadata,
                        [key |-> r.key, type |-> r.type,
                         ttlMs |-> IF ttlMs = -1 THEN NULL ELSE ttlMs,
                         idleSec |-> idleSec,
                         estBytes |-> estimateKeySize(r),
                         db |-> db]),
              memoryUsageCalls |-> st.memoryUsageCalls + 1]

\* the iteration that also copies what the size lookup read into the KeyMeta
CollectKeyWithValue(st, i, r, db) ==
    IF r.typeErr THEN st
    ELSE LET ttlMs == IF r.pttl = ERR THEN NULL ELSE r.pttl
             idleSec == IF r.idle = ERR THEN UNDEF ELSE r.idle
             sampledKey == i % SampleStride = 0
         IN  [metadata |->
                 Append(st.metadata,
                        [key |-> r.key, type |-> r.type,
                         ttlMs |-> IF ttlMs = -1 THEN NULL ELSE ttlMs,
                         idleSec |-> idleSec,
                         estBytes |-> IF sampledKey THEN estimateKeySize(r) ELSE UNDEF,
                         db |-> db,
                         value |-> r.content]),
              memoryUsageCalls |->
                 st.memoryUsageCalls + (IF sampledKey THEN 1 ELSE 0)]

\* One iteration of the loop of collectKeyMetadata, for keys[i] (i from 0)
\* with the replies r: lines 207-241.
CollectKey(st, i, r, db) ==
    IF r.typeErr THEN st
    ELSE LET ttlMs == IF r.pttl = ERR THEN NULL ELSE r.pttl
             idleSec == IF r.idle = ERR THEN UNDEF ELSE r.idle
             sampledKey == i % SampleStride = 0
         IN  [metadata |->
                 Append(st.metadata,
                        [key |-> r.key, type |-> r.type,
                         ttlMs |-> IF ttlMs = -1 THEN NULL ELSE ttlMs,
                         idleSec |-> idleSec,
                         estBytes |-> IF sampledKey THEN estimateKeySize(r) ELSE UNDEF,
                         db |-> db]),
              memoryUsageCalls |->
                 st.memoryUsageCalls + (IF sampledKey THEN 1 ELSE 0)]

RECURSIVE CollectFrom(_, _, _, _)
CollectFrom(st, i, replies, db) ==
    IF i >= Len(replies) THEN st
    ELSE CollectFrom(CollectKey(st, i, replies[i + 1], db), i + 1, replies, db)

\* collectKeyMetadata over a batch whose pipeline answered: the value returned.
\* pipeline is "ok", "null" (exec() resolved to null) or "throws".
collectKeyMetadata(batch, db) ==
    IF batch.pipeline = "null" THEN [metadata |-> <<>>, memoryUsageCalls |-> 0]
    ELSE CollectFrom([metadata |-> <<>>, memoryUsageCalls |-> 0], 0, batch.replies, db)

-----------------------------------------------------------------------------
(* collectKeyMetadata as a state machine: the pipeline is sent, it answers, *)
(* and the loop handles one key per step.  The replies of a key are read    *)
(* when the loop reaches it.                                                *)

MaxBatch == 11      \* keys of the batch: positions 0 and 10 are sampled

\* the name of the key at position i of the batch
BatchKey(i) == <<"k", ToString(i)>>

\* the replies about one key: TYPE, PTTL, OBJECT IDLETIME, MEMORY USAGE, the
\* length lookup of its type (HLEN, LLEN, SCARD, ZCARD, XINFO; for a string,
\* ERR when GET throws) and the value content the size lookup reads: the GET
\* value of a string, the sampled fields and values of a hash
ReplyOf(typeErr, type, pttl, idle, mem, len, content) ==
    [typeErr |-> typeErr, type |-> type, pttl |-> pttl, idle |-> idle,
     mem |-> mem, len |-> len, content |-> content]

\* what the store may answer about a key whose size is estimated.  About a key
\* that was evicted, expired or renamed since SCAN returned it, Redis answers
\* TYPE with "none", PTTL with -2, OBJECT IDLETIME with an error and MEMORY
\* USAGE with null.
SampledReplies ==
    { \* MEMORY USAGE answers
      ReplyOf(FALSE, "string", -1, 7, 64, 1, <<"hello">>),
      \* no MEMORY USAGE: GET
      ReplyOf(FALSE, "string", 30000, ERR, ERR, 1, <<"hello">>),
      \* neither lookup answers
      ReplyOf(FALSE, "hash", ERR, 0, ERR, ERR, <<>>),
      \* MEMORY USAGE null: HLEN and HSCAN
      ReplyOf(FALSE, "hash", 0, 120, 0, 3, <<"id", "42", "nm", "al", "to", "bo">>),
      ReplyOf(FALSE, "stream", -1, 0, ERR, 2, <<>>),
      \* the key no longer exists
      ReplyOf(FALSE, "none", -2, ERR, 0, 0, <<>>),
      \* the TYPE reply is an error
      ReplyOf(TRUE, "none", ERR, ERR, ERR, ERR, <<>>) }

\* and about a key whose size is not estimated
OtherReplies ==
    { ReplyOf(FALSE, "string", -1, 7, 64, 1, <<"hello">>),
      ReplyOf(TRUE, "none", ERR, ERR, ERR, ERR, <<>>) }

WithKey(r, key) ==
    [key |-> key, typeErr |-> r.typeErr, type |-> r.type, pttl |-> r.pttl,
     idle |-> r.idle, mem |-> r.mem, len |-> r.len, content |-> r.content]

\* collectKeyMetadata(client, keys, db, config) is called: lines 190-201
CollectCall(maxBatch) ==
    /\ coll.pc = "idle"
    /\ \E n \in 1..maxBatch :
          coll' = [pc |-> "exec", n |-> n, db |-> 0, i |-> 0,
                   batch |-> [pipeline |-> "ok", replies |-> <<>>],
                   metadata |-> <<>>, memoryUsageCalls |-> 0]
    /\ UNCHANGED <<aggVars, scan, reqVars, lab, connVars>>

\* await pipeline.exec(): it throws, resolves to null, or answers (203-204)
CollectExec ==
    /\ coll.pc = "exec"
    /\ \E outcome \in {"ok", "null", "throws"} :
          coll' = [coll EXCEPT !.batch.pipeline = outcome,
                               !.pc = CASE outcome = "ok" -> "loop"
                                        [] outcome = "null" -> "done"
                                        [] OTHER -> "threw"]
    /\ UNCHANGED <<aggVars, scan, reqVars, lab, connVars>>

\* one iteration of the loop: lines 207-241
CollectStep ==
    /\ coll.pc = "loop"
    /\ coll.i < coll.n
    /\ \E t \in (IF coll.i % SampleStride = 0 THEN SampledReplies ELSE OtherReplies) :
          LET r == WithKey(t, BatchKey(coll.i))
              st == CollectKey([metadata |-> coll.metadata,
                                memoryUsageCalls |-> coll.memoryUsageCalls],
                               coll.i, r, coll.db)
          IN  coll' = [coll EXCEPT !.batch.replies = Append(@, r),
                                   !.i = @ + 1,
                                   !.metadata = st.metadata,
                                   !.memoryUsageCalls = st.memoryUsageCalls]
    /\ UNCHANGED <<aggVars, scan, reqVars, lab, connVars>>

\* the return: line 243
CollectReturn ==
    /\ coll.pc = "loop"
    /\ coll.i = coll.n
    /\ coll' = [coll EXCEPT !.pc = "done"]
    /\ UNCHANGED <<aggVars, scan, reqVars, lab, connVars>>

InitCollect == InitConfig({RouteBuckets})

NextCollect ==
    \/ CollectCall(MaxBatch)
    \/ CollectExec
    \/ CollectStep
    \/ CollectReturn

SpecCollect == InitCollect /\ [][NextCollect]_vars

\* the size estimation of the key failed: neither MEMORY USAGE nor the
\* lookup of the type's heuristic answered
EstimationFailed(r) == ~r.typeErr /\ r.mem = ERR /\ r.len = ERR

TypeOk(r) == ~r.typeErr

\* the position in the batch of the key of an output entry
PositionOf(m) ==
    CHOOSE i \in 0..(Len(coll.batch.replies) - 1) : coll.batch.replies[i + 1].key = m.key

\* C10: a failure of the size estimation of a key removes no key from the
\* output of collectKeyMetadata (every key whose type lookup succeeded is
\* returned, in batch order), and the key whose estimation failed is returned
\* with estBytes absent.
C10_EstimationFailureKeepsKeys ==
    (coll.pc = "done" /\ coll.batch.pipeline = "ok") =>
        LET kept == SelectSeq(coll.batch.replies, TypeOk)
        IN  /\ Len(coll.metadata) = Len(kept)
            /\ \A j \in 1..Len(kept) : coll.metadata[j].key = kept[j].key
            /\ \A j \in 1..Len(coll.metadata) :
                  LET i == PositionOf(coll.metadata[j])
                  IN  (i % SampleStride = 0 /\ EstimationFailed(coll.batch.replies[i + 1]))
                          => coll.metadata[j].estBytes = UNDEF

\* the key no longer existed when the pipeline ran
Vanished(r) == ~r.typeErr /\ r.type = "none" /\ r.pttl = -2

\* the keys of the output, as a set
OutputKeys == {coll.metadata[j].key : j \in 1..Len(coll.metadata)}

\* the replies the entry j of the output was built from
RepliesOf(j) == coll.batch.replies[PositionOf(coll.metadata[j]) + 1]

\* C11: a key that no longer exists when its pipelined lookups run is absent
\* from the output of collectKeyMetadata, while every other key of the batch
\* (whose lookups answered) is present; the call itself does not fail.
C11_VanishedKeyDropped ==
    (coll.pc = "done" /\ coll.batch.pipeline = "ok") =>
        \A i \in 1..Len(coll.batch.replies) :
            LET r == coll.batch.replies[i]
            IN  /\ Vanished(r) => r.key \notin OutputKeys
                /\ (TypeOk(r) /\ ~Vanished(r)) => r.key \in OutputKeys

\* MEMORY USAGE is unavailable (the command throws) or gives no number
NativeFailed(r) == r.mem = ERR \/ r.mem = 0

\* C12: when the native memory command is unavailable or fails and the
\* lookup of the type's heuristic fails too, the key has no estimate:
\* estBytes is absent, not a number computed from a substituted zero.
C12_NoZeroSubstitute ==
    coll.pc \in {"loop", "done"} =>
        \A j \in 1..Len(coll.metadata) :
            (NativeFailed(RepliesOf(j)) /\ RepliesOf(j).len = ERR)
                => coll.metadata[j].estBytes = UNDEF

\* C17: ttlMs of a KeyMeta is null if and only if the store answered PTTL
\* with "no expiry" (-1); a failed PTTL or the reply for a missing key (-2)
\* does not give null, and a no-expiry reply does not give a number.
C17_NullIffNoExpiry ==
    coll.pc \in {"loop", "done"} =>
        \A j \in 1..Len(coll.metadata) :
            (coll.metadata[j].ttlMs = NULL) <=> (RepliesOf(j).pttl = -1)


\* a string of n characters, none of which occurs in the values of the store
RECURSIVE Fill(_, _)
Fill(c, n) == IF n = 0 THEN "" ELSE c \o Fill(c, n - 1)

\* the replies of a store that holds the same keys with the same types,
\* TTLs, idle times, sizes and value byte lengths, and other value contents
OtherContents(replies, c) ==
    [k \in 1..Len(replies) |->
        [replies[k] EXCEPT
            !.content = [m \in 1..Len(@) |-> Fill(c, ByteLength(@[m]))]]]

\* what collectKeyMetadata has returned, or collected so far
CollectedFrom(replies) ==
    CollectFrom([metadata |-> <<>>, memoryUsageCalls |-> 0], 0, replies, coll.db)

\* C18: the output carries no key value content: over two stores that hold
\* the same keys with the same types, TTLs, idle times and value byte
\* lengths but different value contents, collectKeyMetadata returns the same
\* KeyMeta list and the same memoryUsageCalls, the only values of the store's
\* keys that sampleStats, the prefix aggregates and topN are computed from.
C18_NoValueContent ==
    coll.pc \in {"loop", "done"} =>
        CollectedFrom(OtherContents(coll.batch.replies, "x"))
            = [metadata |-> coll.metadata,
               memoryUsageCalls |-> coll.memoryUsageCalls]

\* the call returned the KeyMeta of a string whose size came from the bytes
\* of its GET value (position 0) and of a hash whose size came from the
\* bytes of its sampled fields and values (position 10)
C18_Witness ==
    /\ coll.pc = "done"
    /\ coll.batch.pipeline = "ok"
    /\ Len(coll.batch.replies) = 11
    /\ coll.batch.replies[1].type = "string"
    /\ coll.batch.replies[1].mem = ERR
    /\ coll.batch.replies[1].content = <<"hello">>
    /\ coll.batch.replies[11].type = "hash"
    /\ coll.batch.replies[11].content # <<>>
    /\ Len(coll.metadata) = 11
    /\ coll.metadata[1].estBytes = 55
    /\ coll.metadata[11].estBytes = 56
    /\ OtherContents(coll.batch.replies, "x") # coll.batch.replies


\* the positions of the batch handled so far at which estimateKeySize was
\* invoked: the positions 0, 10, 20, ... whose key was not skipped
Invocations ==
    {i \in 0..(Len(coll.batch.replies) - 1) :
        i % 10 = 0 /\ TypeOk(coll.batch.replies[i + 1])}

\* C22: in collectKeyMetadata the size estimator is invoked only for keys at
\* the batch positions 0, 10, 20, ...: the key at such a position is returned
\* with the estimate, every key at another position is returned with estBytes
\* absent, and memoryUsageCalls is the number of invocations made.
C22_StrideAndCallCount ==
    coll.pc \in {"loop", "done"} =>
        /\ \A j \in 1..Len(coll.metadata) :
              IF PositionOf(coll.metadata[j]) \in Invocations
              THEN coll.metadata[j].estBytes = estimateKeySize(RepliesOf(j))
              ELSE coll.metadata[j].estBytes = UNDEF
        /\ coll.memoryUsageCalls = Cardinality(Invocations)

\* the call returned a batch of 11 keys: the keys at positions 0 and 10 were
\* estimated, one at another position was returned and one was skipped
C22_Witness ==
    /\ coll.pc = "done"
    /\ coll.batch.pipeline = "ok"
    /\ Len(coll.batch.replies) = 11
    /\ Invocations = {0, 10}
    /\ coll.memoryUsageCalls = 2
    /\ Len(coll.metadata) = 10
    /\ \E j \in 1..Len(coll.metadata) :
          PositionOf(coll.metadata[j]) = 3 /\ coll.metadata[j].estBytes = UNDEF


\* C23: estimateKeySize adds the fixed per-key overhead to every estimate it
\* returns: the overhead plus the value of the native memory command when
\* that value is positive, the overhead plus the heuristic value otherwise.
C23_OverheadOnEveryEstimate ==
    coll.pc \in {"loop", "done"} =>
        \A j \in 1..Len(coll.metadata) :
            PositionOf(coll.metadata[j]) \in Invocations =>
                coll.metadata[j].estBytes =
                    IF NativeFailed(RepliesOf(j))
                    THEN estimateKeySizeHeuristic(RepliesOf(j))
                    ELSE 50 + RepliesOf(j).mem


\* the entries the sampling call returned: field and value, or member and
\* score, are one entry
EntriesReturned(r) ==
    IF r.type \in {"hash", "zset"} THEN Len(r.content) \div 2 ELSE Len(r.content)

\* C24: when the native memory command is unavailable, the heuristic size of
\* a hash with n fields is floor(A * n), A being the total encoded bytes of
\* the entries the sampling call returned divided by the number of entries
\* returned; likewise for list, zset and set.  estBytes is that value plus
\* the per-key overhead.
C24_LinearExtrapolation ==
    coll.pc \in {"loop", "done"} =>
        \A j \in 1..Len(coll.metadata) :
            LET r == RepliesOf(j)
            IN  (/\ PositionOf(coll.metadata[j]) \in Invocations
                 /\ NativeFailed(r)
                 /\ r.type \in {"hash", "list", "zset", "set"}
                 /\ r.len # ERR
                 /\ EntriesReturned(r) > 0)
                    => coll.metadata[j].estBytes
                         = 50 + (TotalSize(r.content) * r.len) \div EntriesReturned(r)

-----------------------------------------------------------------------------
(* scanStandalone and scanCluster (scanEngine.ts)                           *)
(*                                                                          *)
(* A shard is a DB index of the standalone server or a master node of the   *)
(* cluster.  The store's side of a shard is a record:                       *)
(*   up        SELECT (standalone) or SCAN and INFO (cluster) answer        *)
(*   infoKeys  the keys=N of the shard's db0 line of INFO keyspace          *)
(*   batches   what the successive SCAN calls return until the cursor is    *)
(*             back at '0': each a [pipeline, replies], the answers the     *)
(*             batch's keys get from collectKeyMetadata's pipeline          *)
(* config.dbs is <<0, 1, ...>>: the shard at position n is DB n - 1.       *)

MaxShards == 3      \* DBs of the standalone scan, master nodes of the cluster
MaxLimit == 3       \* largest sampleLimit tried

GoodReply == WithKey(ReplyOf(FALSE, "string", -1, 7, 64, 1, <<"hello">>), <<"a", "1">>)
GoneReply == WithKey(ReplyOf(TRUE, "none", ERR, ERR, ERR, ERR, <<>>), <<"a", "2">>)

ShardOf(up, infoKeys, batches) == [up |-> up, infoKeys |-> infoKeys, batches |-> batches]

ShardUniverse ==
    { ShardOf(TRUE, 1, << [pipeline |-> "ok", replies |-> <<GoodReply>>] >>),
      ShardOf(TRUE, 4, << [pipeline |-> "ok", replies |-> <<GoodReply, GoneReply, GoodReply>>],
                          [pipeline |-> "ok", replies |-> <<GoodReply>>] >>),
      ShardOf(TRUE, 0, << [pipeline |-> "ok", replies |-> <<>>] >>),
      ShardOf(TRUE, 1, << [pipeline |-> "throws", replies |-> <<GoodReply>>] >>),
      ShardOf(FALSE, ERR, <<>>) }

\* the entry pushed to errors by the catch of a shard: lines 86 and 157
ErrorEntry(kind, n) ==
    IF kind = "standalone" THEN "DB " \o ToString(n - 1) \o ": Connection is closed."
    ELSE "Node 10.0.0." \o ToString(n) \o ":6379: Connection is closed."

\* the catch that records only the first failure
PushFirstError(errors, kind, n) ==
    IF errors = <<>> THEN <<ErrorEntry(kind, n)>> ELSE errors

PushError(errors, kind, n) == Append(errors, ErrorEntry(kind, n))

\* the value returned without the cap of sampleLimit on sampled
ScanResultUncapped(keys, errors, approxTotalKeys, memoryUsageCalls, sampleLimit) ==
    [keys |-> SubSeq(keys, 1, Min(Len(keys), sampleLimit)),
     stats |-> [sampled |-> Len(keys),
                approxTotalKeys |-> approxTotalKeys,
                coverage |-> IF approxTotalKeys > 0
                             THEN [num |-> Len(keys), den |-> approxTotalKeys]
                             ELSE [num |-> 0, den |-> 1],
                memoryUsageCalls |-> memoryUsageCalls,
                errors |-> errors]]

\* the value returned: lines 90-100 and 171-181.  coverage is the fraction
\* num / den.
ScanResult(keys, errors, approxTotalKeys, memoryUsageCalls, sampleLimit) ==
    [keys |-> SubSeq(keys, 1, Min(Len(keys), sampleLimit)),
     stats |-> [sampled |-> Min(Len(keys), sampleLimit),
                approxTotalKeys |-> approxTotalKeys,
                coverage |-> IF approxTotalKeys > 0
                             THEN [num |-> Min(Len(keys), sampleLimit),
                                   den |-> approxTotalKeys]
                             ELSE [num |-> 0, den |-> 1],
                memoryUsageCalls |-> memoryUsageCalls,
                errors |-> errors]]

\* the cursor SCAN returns with batch number b of a shard: '0' after the last
NewCursor(shard, b) == IF b >= Len(shard.batches) THEN 0 ELSE b

\* scanKeys(client, config, profile): the connection's kind and what the
\* store holds
ScanStart(kind, shards) ==
    [pc |-> "info", kind |-> kind, shards |-> shards,
     keys |-> <<>>, errors |-> <<>>, memoryUsageCalls |-> 0,
     approxTotalKeys |-> 0, db |-> 1, cursor |-> 0,
     fetched |-> [m \in 1..Len(shards) |-> 0],
     tasks |-> <<>>, result |-> <<>>]

ScanCall(maxShards) ==
    /\ scan.pc = "idle"
    /\ req.pc = "idle"
    /\ \E kind \in {"standalone", "cluster"}, n \in 1..maxShards :
       \E shards \in [1..n -> ShardUniverse] :
          scan' = ScanStart(kind, shards)
    /\ UNCHANGED <<aggVars, coll, reqVars, lab, connVars>>

\* One pass of the do-while body for batch number b of a shard: SCAN, then
\* collectKeyMetadata when the batch is not empty (lines 73-80, 144-151).
\* threw: the pipeline of the batch threw.
BatchOutcome(shard, b, db) ==
    LET batch == shard.batches[b]
    IN  IF batch.replies = <<>>
        THEN [threw |-> FALSE, keys |-> <<>>, memoryUsageCalls |-> 0]
        ELSE IF batch.pipeline = "throws"
        THEN [threw |-> TRUE, keys |-> <<>>, memoryUsageCalls |-> 0]
        ELSE LET c == collectKeyMetadata(batch, db)
             IN  [threw |-> FALSE, keys |-> c.metadata,
                  memoryUsageCalls |-> c.memoryUsageCalls]

\* scanStandalone, INFO keyspace: lines 47-62
StandaloneInfo ==
    /\ scan.pc = "info"
    /\ scan.kind = "standalone"
    /\ scan' = [scan EXCEPT
                  !.approxTotalKeys = IF scan.shards[1].infoKeys = ERR THEN 0
                                      ELSE scan.shards[1].infoKeys,
                  !.pc = "dbloop"]
    /\ UNCHANGED <<aggVars, coll, reqVars, lab, connVars>>

\* the head of the loop over config.dbs and SELECT: lines 65-70
StandaloneDbLoop ==
    /\ scan.pc = "dbloop"
    /\ IF scan.db > Len(scan.shards) \/ Len(scan.keys) >= config.sampleLimit
       THEN scan' = [scan EXCEPT !.pc = "return"]
       ELSE IF ~scan.shards[scan.db].up
       THEN scan' = [scan EXCEPT !.errors = PushError(@, scan.kind, scan.db),
                                 !.db = @ + 1]
       ELSE scan' = [scan EXCEPT !.pc = "scan", !.cursor = 0]
    /\ UNCHANGED <<aggVars, coll, reqVars, lab, connVars>>

\* the loop that leaves only when the cursor is back at '0'
LoopEndsAtCursorOnly(keys, cursor) == cursor = 0

\* the do-while is left after a batch: `if (keys.length >= config.sampleLimit)
\* break` and `while (cursor !== '0')`, lines 82-83 and 153-154
LoopEnds(keys, cursor) == Len(keys) >= config.sampleLimit \/ cursor = 0

\* one pass of the do-while of the current DB: lines 72-87
StandaloneBatch ==
    /\ scan.pc = "scan"
    /\ LET b == scan.fetched[scan.db] + 1
           out == BatchOutcome(scan.shards[scan.db], b, scan.db - 1)
           keys == scan.keys \o out.keys
           cursor == NewCursor(scan.shards[scan.db], b)
       IN  IF out.threw
           THEN scan' = [scan EXCEPT !.fetched[scan.db] = b,
                                     !.cursor = cursor,
                                     !.errors = PushError(@, scan.kind, scan.db),
                                     !.db = @ + 1,
                                     !.pc = "dbloop"]
           ELSE IF LoopEnds(keys, cursor)
           THEN scan' = [scan EXCEPT !.fetched[scan.db] = b,
                                     !.cursor = cursor,
                                     !.keys = keys,
                                     !.memoryUsageCalls = @ + out.memoryUsageCalls,
                                     !.db = @ + 1,
                                     !.pc = "dbloop"]
           ELSE scan' = [scan EXCEPT !.fetched[scan.db] = b,
                                     !.cursor = cursor,
                                     !.keys = keys,
                                     !.memoryUsageCalls = @ + out.memoryUsageCalls]
    /\ UNCHANGED <<aggVars, coll, reqVars, lab, connVars>>

\* the return of scanStandalone: lines 90-100
StandaloneReturn ==
    /\ scan.pc = "return"
    /\ scan' = [scan EXCEPT
                  !.result = ScanResult(scan.keys, scan.errors, scan.approxTotalKeys,
                                        scan.memoryUsageCalls, config.sampleLimit),
                  !.pc = "done"]
    /\ UNCHANGED <<aggVars, coll, reqVars, lab, connVars>>

\* the sum of keys=N over the nodes, up to the first node whose INFO throws
RECURSIVE ClusterApprox(_, _)
ClusterApprox(shards, n) ==
    IF n > Len(shards) THEN 0
    ELSE IF shards[n].infoKeys = ERR THEN 0
    ELSE shards[n].infoKeys + ClusterApprox(shards, n + 1)

\* scanCluster, INFO keyspace of every node, and the start of one task per
\* node: lines 113-144.  nodes.map runs every task up to its first await, so
\* the first SCAN of every node is sent here; requested counts the SCAN
\* commands a task has sent.
ClusterInfo ==
    /\ scan.pc = "info"
    /\ scan.kind = "cluster"
    /\ scan' = [scan EXCEPT
                  !.approxTotalKeys = ClusterApprox(scan.shards, 1),
                  !.tasks = [n \in 1..Len(scan.shards) |->
                                [pc |-> "scan", nodeKeys |-> <<>>,
                                 nodeMemoryUsageCalls |-> 0, cursor |-> 0,
                                 requested |-> 1]],
                  !.pc = "tasks"]
    /\ UNCHANGED <<aggVars, coll, reqVars, lab, connVars>>

\* one pass of the do-while of the task of node n, from the answer to its
\* SCAN to the next SCAN it sends: lines 141-160
NodeBatch(n) ==
    /\ scan.pc = "tasks"
    /\ scan.tasks[n].pc = "scan"
    /\ IF ~scan.shards[n].up
       THEN scan' = [scan EXCEPT !.errors = PushError(@, scan.kind, n),
                                 !.tasks[n].pc = "done"]
       ELSE LET b == scan.fetched[n] + 1
                out == BatchOutcome(scan.shards[n], b, 0)
                nodeKeys == scan.tasks[n].nodeKeys \o out.keys
                cursor == NewCursor(scan.shards[n], b)
            IN  IF out.threw
                THEN scan' = [scan EXCEPT !.fetched[n] = b,
                                          !.tasks[n].cursor = cursor,
                                          !.errors = PushError(@, scan.kind, n),
                                          !.tasks[n].pc = "done"]
                ELSE scan' = [scan EXCEPT
                                !.fetched[n] = b,
                                !.tasks[n].cursor = cursor,
                                !.tasks[n].nodeKeys = nodeKeys,
                                !.tasks[n].nodeMemoryUsageCalls = @ + out.memoryUsageCalls,
                                !.tasks[n].pc =
                                    IF LoopEnds(nodeKeys, cursor)
                                    THEN "done" ELSE "scan",
                                !.tasks[n].requested =
                                    IF LoopEnds(nodeKeys, cursor)
                                    THEN @ ELSE @ + 1]
    /\ UNCHANGED <<aggVars, coll, reqVars, lab, connVars>>

NodeTask == scan.pc = "tasks" /\ \E n \in 1..Len(scan.shards) : NodeBatch(n)

RECURSIVE CombineKeys(_, _)
CombineKeys(tasks, n) ==
    IF n > Len(tasks) THEN <<>> ELSE tasks[n].nodeKeys \o CombineKeys(tasks, n + 1)

RECURSIVE CombineCalls(_, _)
CombineCalls(tasks, n) ==
    IF n > Len(tasks) THEN 0
    ELSE tasks[n].nodeMemoryUsageCalls + CombineCalls(tasks, n + 1)

\* Promise.all resolved, the results combined and returned: lines 163-181
ClusterReturn ==
    /\ scan.pc = "tasks"
    /\ \A n \in 1..Len(scan.tasks) : scan.tasks[n].pc = "done"
    /\ LET keys == CombineKeys(scan.tasks, 1)
       IN  scan' = [scan EXCEPT
                      !.keys = keys,
                      !.memoryUsageCalls = CombineCalls(scan.tasks, 1),
                      !.result = ScanResult(keys, scan.errors, scan.approxTotalKeys,
                                            CombineCalls(scan.tasks, 1),
                                            config.sampleLimit),
                      !.pc = "done"]
    /\ UNCHANGED <<aggVars, coll, reqVars, lab, connVars>>

InitScan ==
    /\ \E limit \in 1..MaxLimit :
          config = [sampleLimit |-> limit, sizeTopN |-> 1,
                    ttlBuckets |-> RouteBuckets.ttlBuckets,
                    idleBuckets |-> RouteBuckets.idleBuckets]
    /\ heap = <<>>
    /\ cur = NoCall
    /\ objs = <<>>
    /\ scan = NoScan
    /\ coll = NoCollect
    /\ clients = NoClients
    /\ req = NoRequest
    /\ lab = <<>>
    /\ pool = NoPool
    /\ ops = <<>>

NextScan ==
    \/ ScanCall(MaxShards)
    \/ StandaloneInfo
    \/ StandaloneDbLoop
    \/ StandaloneBatch
    \/ StandaloneReturn
    \/ ClusterInfo
    \/ NodeTask
    \/ ClusterReturn

SpecScan == InitScan /\ [][NextScan]_vars

-----------------------------------------------------------------------------
(* Properties of the scan, read from the store and the cursors' progress *)

\* keys of a batch that the store lets collectKeyMetadata describe
Kept(batch) ==
    IF batch.pipeline = "ok" THEN Len(SelectSeq(batch.replies, TypeOk)) ELSE 0

\* keys returned by the first b SCAN calls on a shard, and those among them
\* whose metadata the store answered
RECURSIVE VisitedIn(_, _)
VisitedIn(shard, b) ==
    IF b = 0 THEN 0 ELSE Len(shard.batches[b].replies) + VisitedIn(shard, b - 1)

RECURSIVE CollectedIn(_, _)
CollectedIn(shard, b) ==
    IF b = 0 THEN 0 ELSE Kept(shard.batches[b]) + CollectedIn(shard, b - 1)

RECURSIVE VisitedUpTo(_)
VisitedUpTo(n) ==
    IF n = 0 THEN 0
    ELSE VisitedIn(scan.shards[n], scan.fetched[n]) + VisitedUpTo(n - 1)

RECURSIVE CollectedUpTo(_)
CollectedUpTo(n) ==
    IF n = 0 THEN 0
    ELSE CollectedIn(scan.shards[n], scan.fetched[n]) + CollectedUpTo(n - 1)

Visited == VisitedUpTo(Len(scan.shards))
Collected == CollectedUpTo(Len(scan.shards))

\* C1 as stated: sampled <= sampleLimit and sampled = min(number of keys the
\* scan visited, sampleLimit), for both kinds of scan, any store contents and
\* any shard failures.
C1_SampledIsMinOfVisited ==
    scan.pc = "done" =>
        /\ scan.result.stats.sampled <= config.sampleLimit
        /\ scan.result.stats.sampled = Min(Visited, config.sampleLimit)

\* C1 amended: sampled <= sampleLimit and sampled = min(number of visited keys
\* whose metadata was collected, sampleLimit), which is the length of the
\* returned key list.
C1_SampledIsMinOfCollected ==
    scan.pc = "done" =>
        /\ scan.result.stats.sampled <= config.sampleLimit
        /\ scan.result.stats.sampled = Min(Collected, config.sampleLimit)
        /\ scan.result.stats.sampled = Len(scan.result.keys)

\* a finished scan that visited more keys than it collected, collected more
\* than sampleLimit, and had a failing shard
C1_Witness ==
    /\ scan.pc = "done"
    /\ Visited > Collected
    /\ Collected > config.sampleLimit
    /\ scan.result.stats.errors # <<>>

\* the entries of stats.errors that name shard n
EntriesFor(n) ==
    Cardinality({i \in 1..Len(scan.result.stats.errors) :
                    scan.result.stats.errors[i] = ErrorEntry(scan.kind, n)})

Reachable == {n \in 1..Len(scan.shards) : scan.shards[n].up}

RECURSIVE CollectedOfReachable(_)
CollectedOfReachable(n) ==
    IF n = 0 THEN 0
    ELSE (IF n \in Reachable THEN CollectedIn(scan.shards[n], scan.fetched[n]) ELSE 0)
         + CollectedOfReachable(n - 1)

SampledOfReachable ==
    scan.result.stats.sampled =
        Min(CollectedOfReachable(Len(scan.shards)), config.sampleLimit)

\* C4 as stated: each unreachable shard contributes exactly one entry to
\* stats.errors, every other configured shard is still scanned, and sampled
\* counts only the keys of the reachable shards.
C4_UnreachableShardOneError ==
    scan.pc = "done" =>
        /\ \A n \in 1..Len(scan.shards) :
              IF n \in Reachable THEN scan.fetched[n] >= 1 ELSE EntriesFor(n) = 1
        /\ SampledOfReachable

\* the shards whose scan is attempted: every master node of a cluster; of a
\* standalone server, the DBs before which fewer than sampleLimit keys were
\* collected
Attempted(n) ==
    scan.kind = "cluster" \/ CollectedUpTo(n - 1) < config.sampleLimit

\* C4 amended: each unreachable shard whose scan is attempted contributes
\* exactly one entry to stats.errors and every other attempted shard is
\* scanned; a shard that is not attempted (a standalone DB that comes after
\* sampleLimit keys were collected) is neither scanned nor reported; sampled
\* counts only the keys of the reachable shards.
C4_AttemptedShardOneError ==
    scan.pc = "done" =>
        /\ \A n \in 1..Len(scan.shards) :
              IF Attempted(n)
              THEN IF n \in Reachable THEN scan.fetched[n] >= 1 ELSE EntriesFor(n) = 1
              ELSE scan.fetched[n] = 0 /\ EntriesFor(n) = 0
        /\ SampledOfReachable

\* a finished cluster scan of three nodes, one of them unreachable, the two
\* others holding keys
C4_Witness ==
    /\ scan.pc = "done"
    /\ scan.kind = "cluster"
    /\ Len(scan.shards) = 3
    /\ Cardinality(Reachable) = 2
    /\ \A n \in Reachable : CollectedIn(scan.shards[n], scan.fetched[n]) > 0
    /\ Len(scan.result.stats.errors) = 1

\* keys in the nodeKeys lists of all the tasks
TotalNodeKeys(tasks) == Len(CombineKeys(tasks, 1))

\* the largest number of keys one SCAN batch of the store returns
BatchSizes ==
    UNION { {Len(scan.shards[n].batches[b].replies) :
                b \in 1..Len(scan.shards[n].batches)} : n \in 1..Len(scan.shards) }

LargestBatch ==
    IF BatchSizes = {} THEN 0
    ELSE CHOOSE m \in BatchSizes : \A k \in BatchSizes : k <= m

\* C13: once the running total of keys collected over all shards has reached
\* sampleLimit, no further SCAN batch is requested from any shard, so the
\* keys collected before truncation exceed sampleLimit by less than a batch.
\* A standalone step that handles a batch sends its SCAN first; a cluster
\* task sends its next SCAN at the end of the step (requested grows).
C13_NoBatchAfterLimit ==
    [][/\ (scan.pc = "scan" /\ scan'.pc \in {"scan", "dbloop"})
             => Len(scan.keys) < config.sampleLimit
       /\ (scan.pc = "tasks" /\ scan'.pc = "tasks")
             => \A n \in 1..Len(scan.tasks) :
                   scan'.tasks[n].requested > scan.tasks[n].requested
                       => TotalNodeKeys(scan'.tasks) < config.sampleLimit
       /\ (scan.pc # "idle" /\ scan'.pc = "done")
             => Len(scan'.keys) - config.sampleLimit < LargestBatch]_vars

\* The task of one node run alone, from batch number b on: what it returns
\* and whether its catch ran.
RECURSIVE NodeRunFrom(_, _, _, _, _)
NodeRunFrom(shard, b, nodeKeys, calls, sampleLimit) ==
    IF ~shard.up THEN [keys |-> nodeKeys, memoryUsageCalls |-> calls, failed |-> TRUE]
    ELSE LET out == BatchOutcome(shard, b, 0)
             keys == nodeKeys \o out.keys
         IN  IF out.threw
             THEN [keys |-> nodeKeys, memoryUsageCalls |-> calls, failed |-> TRUE]
             ELSE IF Len(keys) >= sampleLimit \/ NewCursor(shard, b) = 0
             THEN [keys |-> keys, memoryUsageCalls |-> calls + out.memoryUsageCalls,
                   failed |-> FALSE]
             ELSE NodeRunFrom(shard, b + 1, keys, calls + out.memoryUsageCalls,
                              sampleLimit)

\* The nodes scanned one after another, node n and the following ones
RECURSIVE SequentialFrom(_, _, _, _)
SequentialFrom(shards, n, acc, sampleLimit) ==
    IF n > Len(shards) THEN acc
    ELSE LET r == NodeRunFrom(shards[n], 1, <<>>, 0, sampleLimit)
         IN  SequentialFrom(shards, n + 1,
                 [keys |-> acc.keys \o r.keys,
                  memoryUsageCalls |-> acc.memoryUsageCalls + r.memoryUsageCalls,
                  errors |-> IF r.failed THEN PushError(acc.errors, "cluster", n)
                             ELSE acc.errors],
                 sampleLimit)

SequentialScan(shards, sampleLimit) ==
    LET r == SequentialFrom(shards, 1,
                 [keys |-> <<>>, memoryUsageCalls |-> 0, errors |-> <<>>], sampleLimit)
    IN  ScanResult(r.keys, r.errors, ClusterApprox(shards, 1), r.memoryUsageCalls,
                   sampleLimit)

\* C14: the result of scanCluster (keys, sampled, memoryUsageCalls and the
\* errors list) is the same under every interleaving of the per-node tasks:
\* it is the result of scanning the nodes one after another.
C14_ClusterScanDeterministic ==
    (scan.pc = "done" /\ scan.kind = "cluster") =>
        scan.result = SequentialScan(scan.shards, config.sampleLimit)

\* C16: coverage (the fraction num / den) lies in [0, 1]: 0 when
\* approxTotalKeys is 0, otherwise min(sampled / approxTotalKeys, 1).
C16_CoverageInUnitInterval ==
    scan.pc = "done" =>
        LET stats == scan.result.stats
        IN  /\ 0 <= stats.coverage.num
            /\ stats.coverage.num <= stats.coverage.den
            /\ IF stats.approxTotalKeys = 0 THEN stats.coverage.num = 0
               ELSE stats.coverage.num * stats.approxTotalKeys =
                       Min(stats.sampled, stats.approxTotalKeys) * stats.coverage.den


-----------------------------------------------------------------------------
\* The scan request: POST /api/scan (route.ts) gets the client of the
\* connection from the RedisManager (part_010) and hands it to scanKeys.

MaxRequests == 2
MaxRequestShards == 2
RequestLimit == 2

HostsRequired == "Cluster hosts required for cluster connection"
SentinelRequired == "Sentinel configuration required for sentinel connection"

\* createClient without the check of the node list
createClientUnchecked(cache, id) ==
    LET profile == ProfileUniverse[id]
        cleaned == [cache EXCEPT ![id] = "none"]
    IN  IF cache[id] = "ready"
        THEN [threw |-> "", connect |-> FALSE, clients |-> cache]
        ELSE IF profile.kind = "sentinel" /\ ~profile.sentinel
        THEN [threw |-> SentinelRequired, connect |-> FALSE, clients |-> cleaned]
        ELSE [threw |-> "", connect |-> TRUE, clients |-> cleaned]

\* RedisManager.createClient up to the await of client.connect(): the cached
\* client when it is ready, else the switch over profile.kind
createClient(cache, id) ==
    LET profile == ProfileUniverse[id]
        cleaned == [cache EXCEPT ![id] = "none"]
    IN  IF cache[id] = "ready"
        THEN [threw |-> "", connect |-> FALSE, clients |-> cache]
        ELSE IF profile.kind = "cluster" /\ profile.clusterHosts = 0
        THEN [threw |-> HostsRequired, connect |-> FALSE, clients |-> cleaned]
        ELSE IF profile.kind = "sentinel" /\ ~profile.sentinel
        THEN [threw |-> SentinelRequired, connect |-> FALSE, clients |-> cleaned]
        ELSE [threw |-> "", connect |-> TRUE, clients |-> cleaned]

\* the response of the catch of the route: status 500, SCAN_ERROR
ScanError(hint) == [ok |-> FALSE, code |-> "SCAN_ERROR", hint |-> hint]

\* POST /api/scan for the connection id, up to the first await of getClient
RequestScan(maxRequests) ==
    /\ req.pc = "idle"
    /\ Len(req.log) < maxRequests
    /\ \E id \in ProfileIds :
          LET c == createClient(clients, id)
          IN  /\ clients' = c.clients
              /\ req' = [pc |-> IF c.threw # "" THEN "responded"
                                ELSE IF c.connect THEN "connect" ELSE "scanKeys",
                         log |-> req.log, id |-> id,
                         response |-> IF c.threw # "" THEN ScanError(c.threw)
                                      ELSE <<>>]
    /\ scan' = NoScan
    /\ UNCHANGED <<aggVars, coll, lab, connVars>>

\* await client.connect(); this.clients.set(clientId, client): part_010 lines
\* 85-86; a rejected connect is caught by the route
RequestConnect ==
    /\ req.pc = "connect"
    /\ \E connected \in BOOLEAN :
          IF connected
          THEN /\ clients' = [clients EXCEPT ![req.id] = "ready"]
               /\ req' = [req EXCEPT !.pc = "scanKeys"]
          ELSE /\ clients' = clients
               /\ req' = [req EXCEPT !.pc = "responded",
                                     !.response = ScanError("connect ETIMEDOUT")]
    /\ UNCHANGED <<aggVars, scanVars, lab, connVars>>

\* scanKeys(client, scanConfig, connection): route.ts line 79 and the branch
\* on profile.kind of scanEngine.ts lines 16-20
RequestScanKeys(maxShards) ==
    /\ req.pc = "scanKeys"
    /\ \E n \in 1..maxShards : \E shards \in [1..n -> ShardUniverse] :
          scan' = ScanStart(IF ProfileUniverse[req.id].kind = "cluster"
                            THEN "cluster" ELSE "standalone", shards)
    /\ req' = [req EXCEPT !.pc = "scanning"]
    /\ UNCHANGED <<aggVars, coll, clients, lab, connVars>>

\* the response built from the value scanKeys returned: route.ts lines 89-97
RequestReturn ==
    /\ req.pc = "scanning"
    /\ scan.pc = "done"
    /\ req' = [req EXCEPT !.pc = "responded",
                          !.response = [ok |-> TRUE,
                                        sampleStats |-> scan.result.stats]]
    /\ UNCHANGED <<aggVars, scanVars, clients, lab, connVars>>

\* the response is sent; the next request may arrive
RequestDone ==
    /\ req.pc = "responded"
    /\ req' = [pc |-> "idle",
               log |-> Append(req.log, IF req.response.ok THEN "ok"
                                       ELSE req.response.hint)]
    /\ UNCHANGED <<aggVars, scanVars, clients, lab, connVars>>

\* the 'close' handler of a cached client: part_010 lines 79-82
ClientClose ==
    /\ \E id \in ProfileIds :
          /\ clients[id] = "ready"
          /\ clients' = [clients EXCEPT ![id] = "none"]
    /\ UNCHANGED <<aggVars, scanVars, req, lab, connVars>>

InitRequest ==
    /\ config = [sampleLimit |-> RequestLimit, sizeTopN |-> 1,
                 ttlBuckets |-> RouteBuckets.ttlBuckets,
                 idleBuckets |-> RouteBuckets.idleBuckets]
    /\ heap = <<>>
    /\ cur = NoCall
    /\ objs = <<>>
    /\ scan = NoScan
    /\ coll = NoCollect
    /\ clients = NoClients
    /\ req = NoRequest
    /\ lab = <<>>
    /\ pool = NoPool
    /\ ops = <<>>

NextRequest ==
    \/ RequestScan(MaxRequests)
    \/ RequestConnect
    \/ RequestScanKeys(MaxRequestShards)
    \/ StandaloneInfo
    \/ StandaloneDbLoop
    \/ StandaloneBatch
    \/ StandaloneReturn
    \/ ClusterInfo
    \/ NodeTask
    \/ ClusterReturn
    \/ RequestReturn
    \/ RequestDone
    \/ ClientClose

SpecRequest == InitRequest /\ [][NextRequest]_vars

\* Properties of the scan request

\* a connection of kind cluster with no node list
NoNodeList(id) ==
    ProfileUniverse[id].kind = "cluster" /\ ProfileUniverse[id].clusterHosts = 0

\* a shard whose scan was attempted and failed: SELECT or SCAN on a shard
\* that is down, or the pipeline of a fetched batch
ShardFailure ==
    \E n \in 1..Len(scan.shards) :
        /\ Attempted(n)
        /\ \/ ~scan.shards[n].up
           \/ \E b \in 1..scan.fetched[n] :
                 /\ scan.shards[n].batches[b].replies # <<>>
                 /\ scan.shards[n].batches[b].pipeline = "throws"

\* a key of a fetched batch whose TYPE lookup failed
KeyFailure ==
    \E n \in 1..Len(scan.shards) : \E b \in 1..scan.fetched[n] :
        LET batch == scan.shards[n].batches[b]
        IN  /\ batch.pipeline = "ok"
            /\ \E i \in 1..Len(batch.replies) : batch.replies[i].typeErr

\* the request was answered before scanKeys was called, with an error
RejectedBeforeScan == ~req.response.ok /\ scan.pc = "idle"

\* C15 as stated: a scan request for a cluster connection with no node list
\* fails as an operation failure before any SCAN, pipeline or INFO command
\* is issued; every store-side failure during scanning, per key or per
\* shard, yields a returned result with diagnostic text in errors and never
\* a rejected scanKeys call.
C15_StoreFailureInErrors ==
    req.pc = "responded" =>
        /\ NoNodeList(req.id) => RejectedBeforeScan
        /\ scan.pc = "done" =>
              /\ req.response.ok
              /\ (ShardFailure \/ KeyFailure) =>
                    req.response.sampleStats.errors # <<>>

\* C15 amended: a scan request for a cluster connection with no node list
\* fails as an operation failure before any SCAN, pipeline or INFO command
\* is issued; a store-side failure during scanning never rejects the
\* scanKeys call, and the returned errors holds diagnostic text exactly
\* when the scan of some shard failed: the failure of a single key leaves
\* no text in errors.
C15_ShardFailureInErrors ==
    req.pc = "responded" =>
        /\ NoNodeList(req.id) => RejectedBeforeScan
        /\ scan.pc = "done" =>
              /\ req.response.ok
              /\ ShardFailure <=> req.response.sampleStats.errors # <<>>

\* a first request for a cluster connection with no node list was rejected,
\* and a second request returned the scan of a store where one shard failed
\* and a key of another shard failed
C15_Witness ==
    /\ req.pc = "responded"
    /\ req.log = <<HostsRequired>>
    /\ scan.pc = "done"
    /\ req.response.ok
    /\ ShardFailure
    /\ KeyFailure
    /\ req.response.sampleStats.errors # <<>>


-----------------------------------------------------------------------------
\* The bucket labels: calls of getTTLBucketLabel and getIdleBucketLabel with
\* the boundaries of the configuration.

MaxLabels == 2

\* PTTL values in milliseconds, and null for a persistent key
TtlUniverse == {NULL, 0, 500, 59999, 60000, 299999, 300000}

\* OBJECT IDLETIME values in seconds
IdleUniverse == {0, 30, 60, 100}

LabelTTL(maxLabels) ==
    /\ Len(lab) < maxLabels
    /\ \E ttlMs \in TtlUniverse :
          lab' = Append(lab, [fn |-> "getTTLBucketLabel", value |-> ttlMs,
                              label |-> getTTLBucketLabel(ttlMs, config.ttlBuckets)])
    /\ UNCHANGED <<aggVars, scanVars, reqVars, connVars>>

LabelIdle(maxLabels) ==
    /\ Len(lab) < maxLabels
    /\ \E idleSec \in IdleUniverse :
          lab' = Append(lab, [fn |-> "getIdleBucketLabel", value |-> idleSec,
                              label |-> getIdleBucketLabel(idleSec, config.idleBuckets)])
    /\ UNCHANGED <<aggVars, scanVars, reqVars, connVars>>

InitLabel == InitConfig({ScenarioBuckets, RouteBuckets})

NextLabel ==
    \/ LabelTTL(MaxLabels)
    \/ LabelIdle(MaxLabels)

SpecLabel == InitLabel /\ [][NextLabel]_vars

\* Properties of the bucket labels

\* the half-open interval [b_i, b_i+1) that holds sec, Len(buckets) for the
\* overflow interval
IntervalOf(sec, buckets) ==
    IF sec >= buckets[Len(buckets)] THEN Len(buckets)
    ELSE CHOOSE i \in 1..(Len(buckets) - 1) : buckets[i] <= sec /\ sec < buckets[i + 1]

TtlCalls == {i \in 1..Len(lab) : lab[i].fn = "getTTLBucketLabel"}

WholeSeconds(ttlMs) == ttlMs \div 1000

\* C19: with strictly increasing ttlBuckets that start at 0, two non-null
\* TTLs get the same label from getTTLBucketLabel exactly when their
\* whole-second values fall in the same half-open interval (the overflow
\* interval from the last boundary on); null, and only null, gets
\* "persistent".
C19_LabelIsInterval ==
    /\ \A i \in TtlCalls : (lab[i].value = NULL) <=> (lab[i].label = "persistent")
    /\ \A i, j \in TtlCalls :
          (lab[i].value # NULL /\ lab[j].value # NULL) =>
              ((lab[i].label = lab[j].label)
                 <=> (IntervalOf(WholeSeconds(lab[i].value), config.ttlBuckets)
                        = IntervalOf(WholeSeconds(lab[j].value), config.ttlBuckets)))


-----------------------------------------------------------------------------
\* The cursor loops: scans of shards whose batches may be empty or hold only
\* keys that are dropped, under the assumption that every store call returns
\* or fails.

MaxCursorShards == 2

DroppedBatches ==
    ShardOf(TRUE, 1, << [pipeline |-> "ok", replies |-> <<>>],
                        [pipeline |-> "ok", replies |-> <<GoneReply>>],
                        [pipeline |-> "ok", replies |-> <<GoodReply>>] >>)

CursorUniverse == ShardUniverse \cup {DroppedBatches}

CursorScanCall(maxShards) ==
    /\ scan.pc = "idle"
    /\ req.pc = "idle"
    /\ \E kind \in {"standalone", "cluster"}, n \in 1..maxShards :
       \E shards \in [1..n -> CursorUniverse] :
          scan' = ScanStart(kind, shards)
    /\ UNCHANGED <<aggVars, coll, reqVars, lab, connVars>>

NextCursor ==
    \/ CursorScanCall(MaxCursorShards)
    \/ StandaloneInfo
    \/ StandaloneDbLoop
    \/ StandaloneBatch
    \/ StandaloneReturn
    \/ ClusterInfo
    \/ NodeTask
    \/ ClusterReturn

\* every await of the scan is answered: the step that follows it is taken
ScanFairness ==
    /\ WF_vars(StandaloneInfo)
    /\ WF_vars(StandaloneDbLoop)
    /\ WF_vars(StandaloneBatch)
    /\ WF_vars(StandaloneReturn)
    /\ WF_vars(ClusterInfo)
    /\ WF_vars(NodeTask)
    /\ WF_vars(ClusterReturn)

SpecCursor == InitScan /\ [][NextCursor]_vars /\ ScanFairness

\* Properties of the cursor loops

\* the keys in the list the loop of shard n tests against sampleLimit, after
\* its batch b: keys of the call for a standalone DB, nodeKeys for a node
LoopKeys(n, b) ==
    IF scan.kind = "cluster" THEN CollectedIn(scan.shards[n], b)
    ELSE CollectedUpTo(n - 1) + CollectedIn(scan.shards[n], b)

\* batch b of shard n is one that ends the loop: its cursor is '0' or the
\* sample limit is reached after it
EndsLoop(n, b) ==
    NewCursor(scan.shards[n], b) = 0 \/ LoopKeys(n, b) >= config.sampleLimit

\* the metadata pipeline of batch b of shard n failed
BatchFailed(n, b) ==
    /\ scan.shards[n].batches[b].replies # <<>>
    /\ scan.shards[n].batches[b].pipeline = "throws"

\* the loop of shard n is over
LoopOver(n) ==
    IF scan.kind = "cluster"
    THEN scan.pc = "done" \/ (scan.pc = "tasks" /\ scan.tasks[n].pc = "done")
    ELSE scan.pc \in {"return", "done"} \/ (scan.pc \in {"dbloop", "scan"} /\ scan.db > n)

CursorLoopStops ==
    scan.pc # "idle" =>
        \A n \in 1..Len(scan.shards) :
            /\ \A b \in 1..(scan.fetched[n] - 1) : ~EndsLoop(n, b) /\ ~BatchFailed(n, b)
            /\ (LoopOver(n) /\ Attempted(n) /\ scan.shards[n].up) =>
                  /\ scan.fetched[n] >= 1
                  /\ EndsLoop(n, scan.fetched[n]) \/ BatchFailed(n, scan.fetched[n])

\* C25: if every store call returns or fails and each shard's cursor comes
\* back to '0' after finitely many batches, every scanStandalone and
\* scanCluster call eventually returns; the loop of each shard starts with
\* the first batch and stops after the first batch whose cursor is '0' or
\* after which the sample limit is reached by the keys the loop collects
\* (or whose lookups fail), also when batches are empty or all their keys are
\* dropped.
C25_ScanTerminates ==
    /\ []CursorLoopStops
    /\ (scan.pc # "idle") ~> (scan.pc = "done")

\* a scan returned after the loop of a shard went through an empty batch and
\* a batch whose only key was dropped, up to the batch whose cursor is '0'
C25_Witness ==
    /\ scan.pc = "done"
    /\ \E n \in 1..Len(scan.shards) :
          /\ scan.shards[n] = DroppedBatches
          /\ scan.fetched[n] = 3
    /\ \E n \in 1..Len(scan.shards) :
          /\ Len(scan.shards[n].batches) = 2
          /\ scan.fetched[n] = 1

-----------------------------------------------------------------------------
\* The shared connection: the requests for one standalone profile get the
\* same cached client from the RedisManager (part_010 lines 11-15), and the
\* commands they send run, in the order they are sent, in the DB that the
\* last SELECT on that client chose.

MaxOps == 2         \* requests for the profile, running concurrently

\* what the DBs 0 and 1 hold, as the batches SCAN returns: store[db + 1]
SharedStore == << << <<"a">> >>, << <<"b">>, <<"a">> >> >>

\* config.dbs of a scan request
DbLists == {<<0>>, <<1>>, <<0, 1>>}

\* the client of the profile is connected and cached; db: profile.db || 0
SharedPool ==
    [objects |-> << [status |-> "ready", selected |-> 0] >>, cached |-> 1,
     store |-> SharedStore]

Selected == pool.objects[pool.cached].selected

\* the keys DB db holds
DbKeys(db) ==
    UNION {{pool.store[db + 1][b][k] : k \in 1..Len(pool.store[db + 1][b])} :
              b \in 1..Len(pool.store[db + 1])}

KeysOfBatch(db, b) ==
    IF b <= Len(pool.store[db + 1]) THEN pool.store[db + 1][b] ELSE <<>>

\* the keys of every batch of db, without key
RemoveKey(store, db, key) ==
    [store EXCEPT ![db + 1] =
        [b \in 1..Len(@) |-> SelectSeq(@[b], LAMBDA x : x # key)]]

\* POST /api/scan: the cached client, then scanStandalone up to the loop
\* over config.dbs (scanEngine.ts lines 42-62)
SharedScanCall(maxOps) ==
    /\ Len(ops) < maxOps
    /\ \E dbs \in DbLists :
          ops' = Append(ops, [op |-> "scan", pc |-> "head", dbs |-> dbs, at |-> 1,
                              cursor |-> 0, cursorDb |-> 0, keys |-> <<>>,
                              from |-> <<>>, misused |-> FALSE, result |-> <<>>])
    /\ UNCHANGED <<aggVars, scanVars, reqVars, lab, pool>>

\* the head of the loop over config.dbs and `await client.select(db)`: lines
\* 65-70; after the last DB, the return of lines 90-100
SharedScanHead(o) ==
    /\ ops[o].op = "scan"
    /\ ops[o].pc = "head"
    /\ IF ops[o].at > Len(ops[o].dbs) \/ Len(ops[o].keys) >= config.sampleLimit
       THEN /\ ops' = [ops EXCEPT
                         ![o].pc = "done",
                         ![o].result = SubSeq(ops[o].keys, 1,
                                              Min(Len(ops[o].keys), config.sampleLimit))]
            /\ pool' = pool
       ELSE /\ ops' = [ops EXCEPT ![o].pc = "scan", ![o].cursor = 0]
            /\ pool' = [pool EXCEPT !.objects[pool.cached].selected = ops[o].dbs[ops[o].at]]
    /\ UNCHANGED <<aggVars, scanVars, reqVars, lab>>

\* one pass of the do-while: SCAN with the cursor of the loop and the
\* metadata of the keys it returned, pushed with the db of the loop (lines
\* 72-83, 233-240).  The commands run in the DB the connection has selected.
\* from: the DB each key was enumerated in; misused: a cursor was sent to a
\* DB other than the one that issued it.
SharedScanBatch(o) ==
    /\ ops[o].op = "scan"
    /\ ops[o].pc = "scan"
    /\ LET db == ops[o].dbs[ops[o].at]
           b == ops[o].cursor + 1
           batchKeys == KeysOfBatch(Selected, b)
           cursor == IF b >= Len(pool.store[Selected + 1]) THEN 0 ELSE b
           keys == ops[o].keys \o [k \in 1..Len(batchKeys) |-> [key |-> batchKeys[k], db |-> db]]
       IN  ops' = [ops EXCEPT
                     ![o].keys = keys,
                     ![o].from = @ \o [k \in 1..Len(batchKeys) |-> Selected],
                     ![o].misused = @ \/ (ops[o].cursor # 0 /\ ops[o].cursorDb # Selected),
                     ![o].cursor = cursor,
                     ![o].cursorDb = Selected,
                     ![o].at = IF LoopEnds(keys, cursor) THEN @ + 1 ELSE @,
                     ![o].pc = IF LoopEnds(keys, cursor) THEN "head" ELSE "scan"]
    /\ UNCHANGED <<aggVars, scanVars, reqVars, lab, pool>>

\* POST /api/redis/delete or /api/redis/ttl with the key and db of a KeyMeta
\* that a scan returned: the cached client (delete/route.ts lines 14-48)
SharedActionCall(maxOps) ==
    /\ Len(ops) < maxOps
    /\ \E o \in 1..Len(ops) :
          /\ ops[o].op = "scan"
          /\ ops[o].pc = "done"
          /\ \E k \in 1..Len(ops[o].result), action \in {"delete", "ttl"} :
                ops' = Append(ops, [op |-> action, pc |-> "exists",
                                    key |-> ops[o].result[k].key,
                                    db |-> ops[o].result[k].db,
                                    ran |-> <<>>, ok |-> FALSE])
    /\ UNCHANGED <<aggVars, scanVars, reqVars, lab, pool>>

\* `await redis.exists(key)`: delete/route.ts lines 51-54, part_002 55-58.
\* ran: the DBs in which the commands of the action were executed.
SharedActionExists(o) ==
    /\ ops[o].op \in {"delete", "ttl"}
    /\ ops[o].pc = "exists"
    /\ ops' = [ops EXCEPT
                 ![o].ran = Append(@, Selected),
                 ![o].pc = IF ops[o].key \in DbKeys(Selected) THEN "command" ELSE "done"]
    /\ UNCHANGED <<aggVars, scanVars, reqVars, lab, pool>>

\* `await redis.del(key)`, or persist / expire: delete/route.ts line 57,
\* part_002 lines 62-68
SharedActionCommand(o) ==
    /\ ops[o].op \in {"delete", "ttl"}
    /\ ops[o].pc = "command"
    /\ ops' = [ops EXCEPT
                 ![o].ran = Append(@, Selected),
                 ![o].ok = ops[o].key \in DbKeys(Selected),
                 ![o].pc = "done"]
    /\ pool' = IF ops[o].op = "delete"
               THEN [pool EXCEPT !.store = RemoveKey(@, Selected, ops[o].key)]
               ELSE pool
    /\ UNCHANGED <<aggVars, scanVars, reqVars, lab>>

InitShared ==
    /\ \E limit \in 1..MaxLimit :
          config = [sampleLimit |-> limit, sizeTopN |-> 1,
                    ttlBuckets |-> RouteBuckets.ttlBuckets,
                    idleBuckets |-> RouteBuckets.idleBuckets]
    /\ heap = <<>>
    /\ cur = NoCall
    /\ objs = <<>>
    /\ scan = NoScan
    /\ coll = NoCollect
    /\ clients = NoClients
    /\ req = NoRequest
    /\ lab = <<>>
    /\ pool = SharedPool
    /\ ops = <<>>

NextShared ==
    \/ SharedScanCall(MaxOps)
    \/ \E o \in 1..Len(ops) : SharedScanHead(o)
    \/ \E o \in 1..Len(ops) : SharedScanBatch(o)
    \/ SharedActionCall(MaxOps)
    \/ \E o \in 1..Len(ops) : SharedActionExists(o)
    \/ \E o \in 1..Len(ops) : SharedActionCommand(o)

SpecShared == InitShared /\ [][NextShared]_vars

\* Properties of the shared connection

\* C26: a delete or set/remove-TTL action issued with the key and db of a
\* KeyMeta that a scan returned is executed against that key in that DB,
\* whatever DBs earlier scans selected on the cached connection.
C26_ActionRunsInKeyDb ==
    \A o \in 1..Len(ops) :
        ops[o].op \in {"delete", "ttl"} =>
            \A c \in 1..Len(ops[o].ran) : ops[o].ran[c] = ops[o].db

\* C27: when two scanStandalone calls for the same profile run concurrently
\* on the one cached client with different DB lists, every KeyMeta either
\* call has collected carries the db of the DB in which the key was
\* enumerated, and every cursor is only used against the DB that issued it.
C27_ConcurrentScansKeepDb ==
    \A o, q \in 1..Len(ops) :
        (ops[o].op = "scan" /\ ops[q].op = "scan" /\ ops[o].dbs # ops[q].dbs) =>
            /\ \A k \in 1..Len(ops[o].keys) : ops[o].keys[k].db = ops[o].from[k]
            /\ ~ops[o].misused

-----------------------------------------------------------------------------
\* The client cache of one profile id: RedisManager.getClient calls running
\* concurrently, and the close events of the clients they created.
\* pool.objects are the clients created for the id, pool.cached the one that
\* this.clients holds under the id (0: no entry).

MaxCalls == 3       \* getClient calls for the profile id

\* createClient up to `await client.connect()`: a ready cached client is
\* returned; any other cached client is disconnected and its entry deleted;
\* then a new client is created, its handlers are registered and connect()
\* is started (part_010 lines 7-85)
GetClientCall(maxCalls) ==
    /\ Len(ops) < maxCalls
    /\ IF pool.cached # 0 /\ pool.objects[pool.cached].status = "ready"
       THEN /\ ops' = Append(ops, [op |-> "getClient", pc |-> "done", client |-> pool.cached])
            /\ pool' = pool
       ELSE /\ ops' = Append(ops, [op |-> "getClient", pc |-> "connect",
                                   client |-> Len(pool.objects) + 1])
            /\ pool' = [pool EXCEPT
                          !.objects = Append(
                              IF pool.cached # 0
                              THEN [@ EXCEPT ![pool.cached].status = "closed"]
                              ELSE @,
                              [status |-> "connecting", selected |-> 0]),
                          !.cached = 0]
    /\ UNCHANGED <<aggVars, scanVars, reqVars, lab>>

\* connect() resolves and the call goes on: `this.clients.set(clientId,
\* client); return client` (lines 85-88)
GetClientConnected(o) ==
    /\ ops[o].op = "getClient"
    /\ ops[o].pc = "connect"
    /\ pool.objects[ops[o].client].status = "connecting"
    /\ pool' = [pool EXCEPT !.objects[ops[o].client].status = "ready",
                            !.cached = ops[o].client]
    /\ ops' = [ops EXCEPT ![o].pc = "done"]
    /\ UNCHANGED <<aggVars, scanVars, reqVars, lab>>

\* connect() rejects: createClient throws at line 85 without a cache entry
GetClientFailed(o) ==
    /\ ops[o].op = "getClient"
    /\ ops[o].pc = "connect"
    /\ pool.objects[ops[o].client].status = "closed"
    /\ ops' = [ops EXCEPT ![o].pc = "failed"]
    /\ UNCHANGED <<aggVars, scanVars, reqVars, lab, pool>>

\* the connection of client c is closed, while connecting or when ready: its
\* 'close' handler runs `this.clients.delete(clientId)` (lines 79-82)
PoolClientClose(c) ==
    /\ pool.objects[c].status \in {"connecting", "ready"}
    /\ pool' = [pool EXCEPT !.objects[c].status = "closed", !.cached = 0]
    /\ UNCHANGED <<aggVars, scanVars, reqVars, lab, ops>>

NextPool ==
    \/ GetClientCall(MaxCalls)
    \/ \E o \in 1..Len(ops) : GetClientConnected(o)
    \/ \E o \in 1..Len(ops) : GetClientFailed(o)
    \/ \E c \in 1..Len(pool.objects) : PoolClientClose(c)

SpecPool == InitRequest /\ [][NextPool]_vars

\* Properties of the client cache

\* C29: after any interleaving of getClient calls and close events for one
\* profile id, every client created for the id that is still connected is
\* the client the cache holds under the id.
C29_ConnectedClientIsCached ==
    (\A o \in 1..Len(ops) : ops[o].pc \in {"done", "failed"}) =>
        \A c \in 1..Len(pool.objects) :
            pool.objects[c].status = "ready" => pool.cached = c

-----------------------------------------------------------------------------
\* Further properties of the aggregation layer

\* C28: mergeAggregations leaves every input partial result unchanged: after
\* the call each input's prefixes (count, estBytes, ttlHist, idleHist,
\* byType) and top-N lists are what they were before the call.
MergeLeavesInputs ==
    (Len(objs') = Len(objs) + 1 /\ objs'[Len(objs')].op = "mergeAggregations") =>
        \A a \in 1..Len(objs'[Len(objs')].args) :
            LET i == objs'[Len(objs')].args[a]
            IN  View(objs'[i], heap') = View(objs[i], heap)

C28_MergeLeavesInputsUnchanged == [][MergeLeavesInputs]_vars

\* the segment lists of the prefixes of the keys folded into objs[i]
PrefixParts(i) ==
    UNION {{SubSeq(objs[i].keys[k].key, 1, depth) :
               depth \in 1..Min(Len(objs[i].keys[k].key), MaxLevels)} :
              k \in 1..Len(objs[i].keys)}

PartsOf(i, prefix) == {s \in PrefixParts(i) : Join(s) = prefix}

EntriesOf(i, prefix) ==
    {n \in 1..Len(objs[i].prefixes) : objs[i].prefixes[n].prefix = prefix}

RECURSIVE CountSum(_, _)
CountSum(list, wanted) ==
    IF list = <<>> THEN 0
    ELSE (IF wanted[1] THEN Head(list).count ELSE 0)
         + CountSum(Tail(list), Tail(wanted))

\* C30: in the output of aggregateKeys every prefix of depth 2 or 3 has its
\* parent prefix (the prefix without its last segment) present with count
\* and estBytes at least as large as its own, and the counts of the depth-1
\* prefixes sum to the number of input keys.
C30_ParentCoversChild ==
    \A i \in 1..Len(objs) :
        IsAgg(i) =>
            /\ \A n \in 1..Len(objs[i].prefixes) :
                  LET p == objs[i].prefixes[n]
                  IN  /\ PartsOf(i, p.prefix) # {}
                      /\ \A s \in PartsOf(i, p.prefix) :
                            Len(s) >= 2 =>
                                \E m \in EntriesOf(i, Join(SubSeq(s, 1, Len(s) - 1))) :
                                    /\ objs[i].prefixes[m].count >= p.count
                                    /\ objs[i].prefixes[m].estBytes >= p.estBytes
            /\ CountSum(objs[i].prefixes,
                        [n \in 1..Len(objs[i].prefixes) |->
                            \E s \in PartsOf(i, objs[i].prefixes[n].prefix) : Len(s) = 1])
                  = Len(objs[i].keys)

\* a returned object with a prefix of depth 3, and a prefix of depth 2 whose
\* parent counts more keys and more bytes than it does
C30_Witness ==
    \E i \in 1..Len(objs) :
        /\ IsAgg(i)
        /\ \E n \in 1..Len(objs[i].prefixes) :
              \E s \in PartsOf(i, objs[i].prefixes[n].prefix) : Len(s) = 3
        /\ \E n, m \in 1..Len(objs[i].prefixes) :
              /\ \E s \in PartsOf(i, objs[i].prefixes[n].prefix) :
                    Len(s) = 2 /\ objs[i].prefixes[m].prefix = Join(SubSeq(s, 1, 1))
              /\ objs[i].prefixes[m].count > objs[i].prefixes[n].count
              /\ objs[i].prefixes[m].estBytes > objs[i].prefixes[n].estBytes
=============================================================================
